---- MODULE Spec2Model ----
(***************************************************************************)
(* Model of the log-structured key-value backend                           *)
(* (NodeFileSystemStorageBackend) and of the KVStorageAdapter calls that   *)
(* reach it.  Segment files are byte sequences; records are laid out       *)
(* byte for byte as put/delete write them and as get/recoverIndex read     *)
(* them.  Strings are sequences of UTF-16 code units.                      *)
(***************************************************************************)
EXTENDS Integers, Sequences, FiniteSets, TLC

\* ------------------------------------------------------------ constants
MAGIC == 1263946823
VERSION == 1
HEADER_SIZE == 24
FLAG_TOMBSTONE == 1

\* default and largest page size of list
LIST_DEFAULT_LIMIT == 1000
LIST_MAX_LIMIT == 10000

\* ------------------------------------------------------------ bounds
\* segmentMaxBytes of the modelled instance (the program's default is 32 MiB;
\* a small value makes rotation reachable)
SegmentMaxBytes == 56
\* number of records (puts and tombstones) one run appends at most
MaxAppends == 3
\* the clock advances at most this many times
MaxTicks == 1
\* instances constructed on the directory, one after the other
MaxSessions == 3
\* calls that wait for the provider's initialize() at the same time
MaxWaiting == 2
\* gets whose reads of the segment file are in flight at the same time
MaxReading == 1

\* null / undefined of the program (expiresAt and metadata are numbers >= 0)
Null == -1

\* ------------------------------------------------------------ bytes
Min(a, b) == IF a < b THEN a ELSE b
Max(a, b) == IF a > b THEN a ELSE b

RECURSIVE Pow2(_)
Pow2(n) == IF n = 0 THEN 1 ELSE 2 * Pow2(n - 1)

RECURSIVE Zeros(_)
Zeros(n) == IF n = 0 THEN << >> ELSE <<0>> \o Zeros(n - 1)

\* Buffer.writeUInt16LE / readUInt16LE
U16LE(n) == << n % 256, (n \div 256) % 256 >>
ReadU16LE(b, at) == b[at + 1] + 256 * b[at + 2]

\* Buffer.writeUInt32LE / readUInt32LE (values below 2^31)
U32LE(n) == << n % 256, (n \div 256) % 256, (n \div 65536) % 256, (n \div 16777216) % 256 >>
ReadU32LE(b, at) == b[at + 1] + 256 * b[at + 2] + 65536 * b[at + 3] + 16777216 * b[at + 4]

\* floor(log2 n) for n >= 1
RECURSIVE Log2(_)
Log2(n) == IF n < 2 THEN 0 ELSE 1 + Log2(n \div 2)

\* Buffer.writeDoubleLE for an integer 0 <= n < 2^20: IEEE-754 binary64,
\* sign 0, biased exponent in byte 7 and the high nibble of byte 6, the 52-bit
\* fraction below it (only its top 20 bits can be set for such n).
DoubleLE(n) ==
  IF n = 0 THEN Zeros(8)
  ELSE LET e == Log2(n)
           biased == e + 1023
           frac20 == (n - Pow2(e)) * Pow2(20 - e)
       IN << 0, 0, 0, 0,
             frac20 % 256,
             (frac20 \div 256) % 256,
             (biased % 16) * 16 + (frac20 \div 65536),
             biased \div 16 >>

\* Buffer.readDoubleLE of eight bytes written by DoubleLE (or all zero)
ReadDoubleLE(b, at) ==
  LET biased == (b[at + 8] % 128) * 16 + (b[at + 7] \div 16)
      frac20 == (b[at + 7] % 16) * 65536 + b[at + 6] * 256 + b[at + 5]
      e == biased - 1023
  IN IF biased = 0 THEN 0
     ELSE IF e < 0 \/ e > 20 THEN 0
     ELSE Pow2(e) + (frac20 \div Pow2(20 - e))

\* Buffer.from(s, "utf8"): code units below 0x80 take one byte, below 0x800 two
RECURSIVE Utf8(_)
Utf8(s) ==
  IF s = << >> THEN << >>
  ELSE LET c == Head(s)
       IN (IF c < 128 THEN <<c>> ELSE << 192 + (c \div 64), 128 + (c % 64) >>)
          \o Utf8(Tail(s))

\* buf.toString("utf8")
RECURSIVE Utf8Decode(_)
Utf8Decode(b) ==
  IF b = << >> THEN << >>
  ELSE IF Head(b) < 128 THEN <<Head(b)>> \o Utf8Decode(Tail(b))
  ELSE IF Head(b) >= 192 /\ Head(b) < 224 /\ Len(b) >= 2 /\ b[2] >= 128 /\ b[2] < 192
       THEN << (Head(b) - 192) * 64 + (b[2] - 128) >> \o Utf8Decode(Tail(Tail(b)))
  ELSE <<65533>> \o Utf8Decode(Tail(b))

\* buffer.subarray(from, from + n), clipped to the buffer like a positioned read
Slice(b, from, n) ==
  LET hi == Min(Len(b), from + n)
  IN IF from >= hi THEN << >> ELSE [i \in 1..(hi - from) |-> b[from + i]]

\* JS truthiness of a number-or-null field: null and 0 are falsy
Truthy(x) == x # Null /\ x # 0

\* Map.set / Map.delete on a function used as a Map
MapSet(m, k, v) == [x \in (DOMAIN m) \cup {k} |-> IF x = k THEN v ELSE m[x]]
MapDelete(m, k) == [x \in (DOMAIN m) \ {k} |-> m[x]]
EmptyMap == << >>

\* ------------------------------------------------------------ JSON text
\* The JSON-serializable values of the model are arrays of naturals.
RECURSIVE Decimal(_)
Decimal(n) == IF n < 10 THEN <<48 + n>> ELSE Decimal(n \div 10) \o <<48 + (n % 10)>>

RECURSIVE JoinNumbers(_)
JoinNumbers(a) ==
  IF a = << >> THEN << >>
  ELSE IF Len(a) = 1 THEN Decimal(a[1])
  ELSE Decimal(a[1]) \o <<44>> \o JoinNumbers(Tail(a))

\* JSON.stringify of an array of naturals: "[1,20]"
JSONStringify(a) == <<91>> \o JoinNumbers(a) \o <<93>>

ParseError == [ok |-> FALSE, v |-> << >>]

\* the elements of a JSON array text from position i on; cur is the number
\* being read (Null when no digit has been read yet)
RECURSIVE ParseNumbers(_, _, _, _)
ParseNumbers(s, i, cur, acc) ==
  IF i > Len(s) THEN ParseError
  ELSE LET c == s[i] IN
    IF c >= 48 /\ c <= 57
      THEN IF cur = 0 THEN ParseError
           ELSE ParseNumbers(s, i + 1, (IF cur = Null THEN 0 ELSE cur * 10) + (c - 48), acc)
    ELSE IF c = 44
      THEN IF cur = Null THEN ParseError ELSE ParseNumbers(s, i + 1, Null, Append(acc, cur))
    ELSE IF c = 93
      THEN IF i # Len(s) THEN ParseError
           ELSE IF cur = Null
             THEN (IF acc = << >> THEN [ok |-> TRUE, v |-> << >>] ELSE ParseError)
           ELSE [ok |-> TRUE, v |-> Append(acc, cur)]
    ELSE ParseError

\* JSON.parse of a JSON array text; anything else throws (ok = FALSE)
JSONParse(s) ==
  IF Len(s) >= 2 /\ s[1] = 91 THEN ParseNumbers(s, 2, Null, << >>) ELSE ParseError

\* ------------------------------------------------------------ values
\* A value handed to KVStorageAdapter.put: a string (code units), a
\* JSON-serializable object (array of naturals) or binary data (bytes).
StringValue(v) == [type |-> "string", v |-> v]
ObjectValue(v) == [type |-> "object", v |-> v]
BytesValue(v) == [type |-> "bytes", v |-> v]
Thrown == [type |-> "throw", v |-> << >>]

normalizePutValueSync(value) ==
  IF value.type = "string" THEN [encoding |-> "text", stored |-> value.v]
  ELSE IF value.type = "bytes" THEN [encoding |-> "binary", stored |-> value.v]
  ELSE [encoding |-> "clone", stored |-> value.v]

\* KVPutOptions; an absent option is Null
PutOptions(ttl, exp, md) == [expirationTtl |-> ttl, expiration |-> exp, metadata |-> md]
NoOptions == PutOptions(Null, Null, Null)

toEpochSeconds(msEpoch) == msEpoch \div 1000
fromEpochSeconds(sec) == sec * 1000

computeExpiresAtMs(options, nowMs) ==
  IF options.expirationTtl # Null THEN nowMs + Max(0, options.expirationTtl) * 1000
  ELSE IF options.expiration # Null THEN fromEpochSeconds(options.expiration)
  ELSE Null

isExpired(rec, nowMs) == rec.expiresAt # Null /\ rec.expiresAt <= nowMs

\* the StoredRecord KVStorageAdapter.put hands to the backend (no encryption)
AdapterRecord(key, value, options, nowMs) ==
  LET n == normalizePutValueSync(value)
  IN [key |-> key, value |-> n.stored, encoding |-> n.encoding,
      expiresAt |-> computeExpiresAtMs(options, nowMs),
      metadata |-> options.metadata,
      createdAt |-> nowMs, updatedAt |-> nowMs]

ParsedValue(text) ==
  LET p == JSONParse(text) IN IF p.ok THEN ObjectValue(p.v) ELSE Thrown

\* a ReadableStream over the given bytes
StreamValue(v) == [type |-> "stream", v |-> v]

\* decodeValue, followed by the Blob conversions of getWithMetadata
decodeValue(rec, want) ==
  IF rec.encoding = "text" THEN
    IF want = "text" THEN StringValue(rec.value)
    ELSE IF want = "json" THEN ParsedValue(rec.value)
    ELSE IF want = "arrayBuffer" THEN BytesValue(Utf8(rec.value))
    ELSE StreamValue(Utf8(rec.value))
  ELSE IF rec.encoding = "json" THEN
    IF want = "json" THEN ParsedValue(rec.value)
    ELSE IF want = "text" THEN StringValue(rec.value)
    ELSE IF want = "arrayBuffer" THEN BytesValue(Utf8(rec.value))
    ELSE StreamValue(Utf8(rec.value))
  ELSE IF rec.encoding = "clone" THEN
    IF want = "json" THEN ObjectValue(rec.value)
    ELSE IF want = "text" THEN StringValue(JSONStringify(rec.value))
    ELSE IF want = "arrayBuffer" THEN BytesValue(Utf8(JSONStringify(rec.value)))
    ELSE StreamValue(Utf8(JSONStringify(rec.value)))
  ELSE
    IF want = "stream" THEN StreamValue(rec.value)
    ELSE IF want = "arrayBuffer" THEN BytesValue(rec.value)
    ELSE IF want = "json" THEN ParsedValue(Utf8Decode(rec.value))
    ELSE StringValue(Utf8Decode(rec.value))

\* ------------------------------------------------------------ keys
\* A key handed to KVStorageAdapter is a string (a sequence of code units);
\* an argument that is no string (a number, null, an object) is written as a
\* sequence holding Null.
NotAString == << Null >>

\* assertKey that only looks at the length
assertKeyLength(key) == Len(key) # 0

assertKey(key) == (\A i \in 1..Len(key) : key[i] # Null) /\ Len(key) # 0

\* ------------------------------------------------------------ read cache
\* TinyLRU: max and the Map, its entries in insertion order.  maxEntries | 0
\* of an integer below 2^31 is the integer.
TinyLRU(maxEntries) == [max |-> Max(0, maxEntries), map |-> << >>]

NoHit == [found |-> FALSE, value |-> << >>, meta |-> Null]

\* Map.delete
TinyLRU_delete(c, k) == [c EXCEPT !.map = SelectSeq(@, LAMBDA e : e.k # k)]

TinyLRU_clear(c) == [c EXCEPT !.map = << >>]

\* TinyLRU.get: the cache afterwards and what get returns
TinyLRU_get(c, k, nowMs) ==
  IF \A i \in 1..Len(c.map) : c.map[i].k # k THEN [cache |-> c, hit |-> NoHit]
  ELSE LET e == c.map[CHOOSE i \in 1..Len(c.map) : c.map[i].k = k]
       IN IF e.expiresAt <= nowMs THEN [cache |-> TinyLRU_delete(c, k), hit |-> NoHit]
          ELSE [cache |-> c, hit |-> [found |-> TRUE, value |-> e.value, meta |-> e.meta]]

\* Map.set: an entry of the key keeps its place, a new key goes last
MapPut(map, e) ==
  IF \E i \in 1..Len(map) : map[i].k = e.k
    THEN [i \in 1..Len(map) |-> IF map[i].k = e.k THEN e ELSE map[i]]
  ELSE Append(map, e)

\* Evict that drops the entry inserted last
EvictNewest(map, max) ==
  IF Len(map) > max THEN SubSeq(map, 1, max) ELSE map

\* the while loop of set: delete the first key of the Map while it is too big
RECURSIVE Evict(_, _)
Evict(map, max) == IF Len(map) > max THEN Evict(Tail(map), max) ELSE map

TinyLRU_set(c, k, value, meta, ttlSeconds, nowMs) ==
  IF c.max <= 0 THEN c
  ELSE [c EXCEPT !.map =
          Evict(MapPut(@, [k |-> k, expiresAt |-> nowMs + Max(0, ttlSeconds) * 1000,
                           value |-> value, meta |-> meta]),
                c.max)]

\* the code units of a decoding type's name
TypeChars(type) ==
  IF type = "text" THEN <<116, 101, 120, 116>>
  ELSE IF type = "json" THEN <<106, 115, 111, 110>>
  ELSE IF type = "arrayBuffer" THEN <<97, 114, 114, 97, 121, 66, 117, 102, 102, 101, 114>>
  ELSE <<115, 116, 114, 101, 97, 109>>

\* `${key}::${wantType}`
cacheKey(key, wantType) == key \o <<58, 58>> \o TypeChars(wantType)

\* invalidateCache that leaves the stream entry
invalidateCacheThree(c, key) ==
  TinyLRU_delete(TinyLRU_delete(TinyLRU_delete(c, cacheKey(key, "text")),
                                cacheKey(key, "json")),
                 cacheKey(key, "arrayBuffer"))

invalidateCache(c, key) ==
  TinyLRU_delete(
    TinyLRU_delete(TinyLRU_delete(TinyLRU_delete(c, cacheKey(key, "text")),
                                  cacheKey(key, "json")),
                   cacheKey(key, "arrayBuffer")),
    cacheKey(key, "stream"))

\* ------------------------------------------------------------ encryption
\* a ^ b on bit patterns of the given width
RECURSIVE Xor(_, _, _)
Xor(a, b, bits) ==
  IF bits = 0 THEN 0
  ELSE (((a % 2) + (b % 2)) % 2) + 2 * Xor(a \div 2, b \div 2, bits - 1)

\* the provider of the tests: every byte ^ 0xaa; decrypt is encrypt
encrypt(plaintext) == [i \in 1..Len(plaintext) |-> Xor(plaintext[i], 170, 8)]
decrypt(ciphertext) == encrypt(ciphertext)

encodingToFlag(encoding) ==
  IF encoding = "text" THEN 0
  ELSE IF encoding = "json" THEN 1
  ELSE IF encoding = "clone" THEN 2
  ELSE 3

\* flagToEncoding; "throw" for a flag it does not know
flagToEncoding(flag) ==
  IF flag = 0 THEN "text"
  ELSE IF flag = 1 THEN "json"
  ELSE IF flag = 2 THEN "clone"
  ELSE IF flag = 3 THEN "binary"
  ELSE "throw"

\* encodeForEncryption that leaves the encoding tag 0
encodeForEncryptionUntagged(encoding, storedValue) ==
  <<1, 0>> \o (IF encoding = "binary" THEN storedValue
               ELSE IF encoding = "clone" THEN Utf8(JSONStringify(storedValue))
               ELSE Utf8(storedValue))

\* the plaintext frame: version byte, encoding tag, payload
encodeForEncryption(encoding, storedValue) ==
  <<1, encodingToFlag(encoding)>>
    \o (IF encoding = "binary" THEN storedValue
        ELSE IF encoding = "clone" THEN Utf8(JSONStringify(storedValue))
        ELSE Utf8(storedValue))

Decrypted(threw, encoding, value) == [threw |-> threw, encoding |-> encoding, value |-> value]

\* decodeEncryptedPayload once the encoding and the payload are known
DecodePayload(encoding, payload, text) ==
  IF encoding = "throw" THEN Decrypted(TRUE, "binary", << >>)
  ELSE IF encoding = "binary" THEN Decrypted(FALSE, encoding, payload)
  ELSE IF encoding = "clone"
    THEN Decrypted(~JSONParse(text).ok, encoding, JSONParse(text).v)
  ELSE Decrypted(FALSE, encoding, text)

decodeEncryptedPayload(plaintext) ==
  IF Len(plaintext) < 2 \/ plaintext[1] # 1 THEN Decrypted(TRUE, "binary", << >>)
  ELSE DecodePayload(flagToEncoding(plaintext[2]),
                     SubSeq(plaintext, 3, Len(plaintext)),
                     Utf8Decode(SubSeq(plaintext, 3, Len(plaintext))))

\* EncryptedRecord that keeps the encoding of the value
EncryptedRecordAsIs(rec) ==
  [rec EXCEPT !.value = encrypt(encodeForEncryption(rec.encoding, rec.value))]

\* KVStorageAdapter.put with a provider: the record holds the ciphertext of
\* the frame, as binary
EncryptedRecord(rec) ==
  [rec EXCEPT !.encoding = "binary",
              !.value = encrypt(encodeForEncryption(rec.encoding, rec.value))]

\* effectiveRecord of getWithMetadata for the decrypted frame d
WithDecrypted(rec, d) ==
  [rec EXCEPT !.threw = d.threw, !.encoding = d.encoding, !.value = d.value]

\* getWithMetadata with a provider: the record must be binary; decrypt it
DecryptRecord(rec) ==
  IF rec.encoding # "binary" THEN [rec EXCEPT !.threw = TRUE]
  ELSE WithDecrypted(rec, decodeEncryptedPayload(decrypt(rec.value)))

\* constructor of KVStorageAdapter: opts.cacheEntries ?? 2048, the provider
KVStorageAdapter(cacheEntries, provider) ==
  [cache |-> TinyLRU(IF cacheEntries = Null THEN 2048 ELSE cacheEntries),
   encryptionProvider |-> provider,
   encryptionReady |-> "null",
   waiting |-> << >>,
   reading |-> << >>,
   provider |-> [initialize |-> FALSE, failing |-> FALSE, initCalls |-> 0, early |-> FALSE]]

\* ensureEncryptionReady that calls initialize() while it has not resolved
ensureEncryptionReadyAgain(a) ==
  IF ~(a.encryptionProvider /\ a.provider.initialize) THEN a
  ELSE IF a.encryptionReady # "resolved"
    THEN [a EXCEPT !.encryptionReady = "pending", !.provider.initCalls = Min(2, @ + 1)]
  ELSE a

\* ensureEncryptionReady up to its await: encryptionReady is the promise of
\* initialize() ("null" before the first call); initCalls counts the calls of
\* initialize(), up to 2
ensureEncryptionReady(a) ==
  IF ~(a.encryptionProvider /\ a.provider.initialize) THEN a
  ELSE IF a.encryptionReady = "null"
    THEN [a EXCEPT !.encryptionReady = "pending", !.provider.initCalls = Min(2, @ + 1)]
  ELSE a

\* await this.encryptionReady that does not wait for a pending promise
AwaitedAtOnce(a) ==
  IF ~(a.encryptionProvider /\ a.provider.initialize) THEN "go"
  ELSE IF a.encryptionReady = "rejected" THEN "throw"
  ELSE "go"

\* what the await of ensureEncryptionReady does to the call: it goes on,
\* waits for initialize(), or throws what initialize() rejected with
Awaited(a) ==
  IF ~(a.encryptionProvider /\ a.provider.initialize) THEN "go"
  ELSE IF a.encryptionReady = "resolved" THEN "go"
  ELSE IF a.encryptionReady = "rejected" THEN "throw"
  ELSE "wait"

\* the provider's encrypt or decrypt is called: early records a call made
\* before initialize() has completed
Crypt(a) ==
  IF a.encryptionProvider
    THEN [a EXCEPT !.provider.early =
            @ \/ (a.provider.initialize /\ a.encryptionReady # "resolved")]
  ELSE a

\* a getWithMetadata that is inside backend.get: it has looked the key up in
\* the index (meta), has the descriptor to read through (fd), and awaits
\* fsRead; overlapped: a put or delete of its key has completed since
Reading(key, want, cacheTtl, meta, fd) ==
  [key |-> key, want |-> want, cacheTtl |-> cacheTtl, meta |-> meta, fd |-> fd,
   overlapped |-> FALSE]

\* a put or delete of key has completed
Overlapped(reading, key) ==
  [i \in 1..Len(reading) |->
     IF reading[i].key = key THEN [reading[i] EXCEPT !.overlapped = TRUE] ELSE reading[i]]

\* a call that waits for initialize()
Call(op, key, value, options, want, cacheTtl, rec) ==
  [op |-> op, key |-> key, value |-> value, options |-> options, want |-> want,
   cacheTtl |-> cacheTtl, rec |-> rec]

Park(a, call) == [a EXCEPT !.waiting = Append(@, call)]

\* ------------------------------------------------------------ log records
encodingMap(encoding) ==
  IF encoding = "text" THEN 0
  ELSE IF encoding = "json" THEN 1
  ELSE IF encoding = "clone" THEN 2
  ELSE 3

\* encodings[encodingFlag] || "binary"
encodings(flag) ==
  IF flag = 0 THEN "text"
  ELSE IF flag = 1 THEN "json"
  ELSE IF flag = 2 THEN "clone"
  ELSE "binary"

\* record.updatedAt >>> 0 (timestamps of the model stay below 2^31)
ToUint32(n) == IF n < 0 THEN 0 ELSE n

\* valBuf of put
ValueBuf(record) ==
  IF record.encoding = "text" THEN Utf8(record.value)
  ELSE IF record.encoding = "json" \/ record.encoding = "clone"
    THEN Utf8(JSONStringify(record.value))
  ELSE record.value

\* the header put writes
PutHeader(record, keyLen, valLen) ==
  U32LE(MAGIC) \o <<VERSION>> \o << encodingMap(record.encoding) * 2 >>
    \o U16LE(keyLen) \o U32LE(valLen) \o U32LE(ToUint32(record.updatedAt))
    \o DoubleLE(IF Truthy(record.expiresAt) THEN record.expiresAt ELSE 0)

\* the header delete writes
TombstoneHeader(keyLen, nowMs) ==
  U32LE(MAGIC) \o <<VERSION>> \o <<FLAG_TOMBSTONE>>
    \o U16LE(keyLen) \o U32LE(0) \o U32LE(ToUint32(nowMs)) \o Zeros(8)

\* [header, keyBuf, valBuf] of put, as one byte sequence
PutBuffers(record) ==
  LET keyBuf == Utf8(record.key)
      valBuf == ValueBuf(record)
  IN PutHeader(record, Len(keyBuf), Len(valBuf)) \o keyBuf \o valBuf

\* [header, keyBuf] of delete
DeleteBuffers(key, nowMs) ==
  LET keyBuf == Utf8(key) IN TombstoneHeader(Len(keyBuf), nowMs) \o keyBuf

IndexEntry(fileId, offset, size, ts, expiresAt, metadata) ==
  [fileId |-> fileId, offset |-> offset, size |-> size, ts |-> ts,
   expiresAt |-> expiresAt, metadata |-> metadata]

\* ------------------------------------------------------------ recovery
\* PastEnd that trusts the header
PastEndUnchecked(pos, total, fileSize) == FALSE

\* recoverIndex: the declared length of the record at pos reaches past the
\* end of the file
PastEnd(pos, total, fileSize) == pos + total > fileSize

\* RecoveredEntry that takes no expiry from the header
RecoveredEntryNoExpiry(id, pos, total, ts, expiresAt) ==
  IndexEntry(id, pos, total, ts, Null, Null)

\* RecoveredEntry that fills metadata from the header, with its timestamp
RecoveredEntryStamped(id, pos, total, ts, expiresAt) ==
  IndexEntry(id, pos, total, ts, IF expiresAt # 0 THEN expiresAt ELSE Null, ts)

\* recoverIndex: the index entry built from a record's header
RecoveredEntry(id, pos, total, ts, expiresAt) ==
  IndexEntry(id, pos, total, ts, IF expiresAt # 0 THEN expiresAt ELSE Null, Null)

\* ApplyRecord that keeps the entry a key already has
ApplyRecordKeepFirst(index, flags, keyStr, entry) ==
  IF flags % 2 = FLAG_TOMBSTONE THEN MapDelete(index, keyStr)
  ELSE IF keyStr \in DOMAIN index THEN index
  ELSE MapSet(index, keyStr, entry)

\* ApplyRecord that passes over tombstones
ApplyRecordNoTombstone(index, flags, keyStr, entry) ==
  IF flags % 2 = FLAG_TOMBSTONE THEN index ELSE MapSet(index, keyStr, entry)

\* recoverIndex: what one complete record does to the index
ApplyRecord(index, flags, keyStr, entry) ==
  IF flags % 2 = FLAG_TOMBSTONE THEN MapDelete(index, keyStr)
  ELSE MapSet(index, keyStr, entry)

\* the while loop of recoverIndex over one segment file, from position pos
RECURSIVE RecoverSegment(_, _, _, _)
RecoverSegment(index, id, file, pos) ==
  LET fileSize == Len(file) IN
  IF ~(pos + HEADER_SIZE <= fileSize) THEN index
  ELSE LET header == Slice(file, pos, HEADER_SIZE) IN
    IF Slice(header, 0, 4) # U32LE(MAGIC) THEN index
    ELSE LET flags == header[6]
             keyLen == ReadU16LE(header, 6)
             valLen == ReadU32LE(header, 8)
             ts == ReadU32LE(header, 12)
             expiresAt == ReadDoubleLE(header, 16)
             total == HEADER_SIZE + keyLen + valLen
         IN IF PastEnd(pos, total, fileSize) THEN index
            ELSE RecoverSegment(
                   ApplyRecord(index, flags,
                               Utf8Decode(Slice(file, pos + HEADER_SIZE, keyLen)),
                               RecoveredEntry(id, pos, total, ts, expiresAt)),
                   id, file, pos + total)

\* listSegments: the segment ids of the directory, ascending
RECURSIVE SortedIds(_)
SortedIds(S) ==
  IF S = {} THEN << >>
  ELSE LET m == CHOOSE x \in S : \A y \in S : x <= y
       IN <<m>> \o SortedIds(S \ {m})

\* listSegments with the ids in descending order
listSegmentsDescending(dir) ==
  LET ids == SortedIds(DOMAIN dir)
  IN [i \in 1..Len(ids) |-> ids[Len(ids) + 1 - i]]

listSegments(dir) == SortedIds(DOMAIN dir)

\* where the while loop of recoverIndex leaves a segment file: the end of its
\* last complete record
RECURSIVE ScanEnd(_, _)
ScanEnd(file, pos) ==
  IF ~(pos + HEADER_SIZE <= Len(file)) THEN pos
  ELSE LET header == Slice(file, pos, HEADER_SIZE)
           total == HEADER_SIZE + ReadU16LE(header, 6) + ReadU32LE(header, 8)
       IN IF Slice(header, 0, 4) # U32LE(MAGIC) \/ PastEnd(pos, total, Len(file))
            THEN pos
            ELSE ScanEnd(file, pos + total)

\* recoverIndex that gives up the replay at the first segment it cannot scan
\* to the end
RECURSIVE recoverIndexUntilDamage(_, _, _)
recoverIndexUntilDamage(index, dir, segments) ==
  IF segments = << >> THEN index
  ELSE IF ScanEnd(dir[Head(segments)], 0) # Len(dir[Head(segments)])
    THEN RecoverSegment(index, Head(segments), dir[Head(segments)], 0)
    ELSE recoverIndexUntilDamage(
           RecoverSegment(index, Head(segments), dir[Head(segments)], 0),
           dir, Tail(segments))

\* recoverIndex: replay the segments in the order given, onto index
RECURSIVE recoverIndex(_, _, _)
recoverIndex(index, dir, segments) ==
  IF segments = << >> THEN index
  ELSE recoverIndex(RecoverSegment(index, Head(segments), dir[Head(segments)], 0),
                    dir, Tail(segments))

\* ------------------------------------------------------------ the instance
\* The state the operations work on: the backend instance (be), the data
\* directory (disk: segment id -> bytes of NNNNNN.kvlog) and the process's
\* open file descriptors (fds: number -> file and open mode).
World(b, d, f) == [be |-> b, disk |-> d, fds |-> f]

\* field initialisers and constructor of NodeFileSystemStorageBackend
NewBackend ==
  [opened |-> FALSE, activeId |-> 1, activeFd |-> Null, activeSize |-> 0,
   activeOffset |-> 0, index |-> EmptyMap, fdCache |-> EmptyMap,
   segmentMaxBytes |-> SegmentMaxBytes]

\* fs.openSync: the lowest descriptor number not in use
OpenSync(f, id, mode) ==
  LET fd == CHOOSE n \in 1..(Cardinality(DOMAIN f) + 1) :
              n \notin DOMAIN f /\ \A m \in 1..(n - 1) : m \in DOMAIN f
  IN [fd |-> fd, fds |-> MapSet(f, fd, [file |-> id, mode |-> mode])]

\* fs.closeSync(fd) when fd is not null
CloseSync(f, fd) == IF fd # Null THEN MapDelete(f, fd) ELSE f

\* the assignments of openActiveForAppend once openSync has returned o
SetActive(w, id, o) ==
  World([w.be EXCEPT !.activeFd = o.fd, !.activeId = id],
        IF id \in DOMAIN w.disk THEN w.disk ELSE MapSet(w.disk, id, << >>),
        o.fds)

openActiveForAppend(w, id) == SetActive(w, id, OpenSync(w.fds, id, "a+"))

\* activeSize = activeOffset = size
SetActiveSize(w, size) ==
  World([w.be EXCEPT !.activeSize = size, !.activeOffset = size], w.disk, w.fds)

rotate(w) ==
  SetActiveSize(
    openActiveForAppend(World(w.be, w.disk, CloseSync(w.fds, w.be.activeFd)),
                        w.be.activeId + 1),
    0)

\* opened = true
SetOpened(w) == World([w.be EXCEPT !.opened = TRUE], w.disk, w.fds)

\* ensureOpened after the newest segment has been opened for append: fstat,
\* and a rotation when the segment is full
StatActive(w) == SetActiveSize(w, Len(w.disk[w.be.activeId]))
RotateIfFull(w) == IF w.be.activeSize >= w.be.segmentMaxBytes THEN rotate(w) ELSE w

\* OpenSegments without the replay of the segments
OpenSegmentsNoReplay(w, segments) ==
  IF Len(segments) = 0 THEN SetOpened(openActiveForAppend(w, 1))
  ELSE SetOpened(RotateIfFull(StatActive(openActiveForAppend(w, segments[Len(segments)]))))

\* OpenSegments that takes the oldest segment as the active one
OpenSegmentsOldest(w, segments) ==
  IF Len(segments) = 0 THEN SetOpened(openActiveForAppend(w, 1))
  ELSE SetOpened(RotateIfFull(StatActive(
         openActiveForAppend(
           World([w.be EXCEPT !.index = recoverIndex(w.be.index, w.disk, segments)],
                 w.disk, w.fds),
           segments[1]))))

\* ensureOpened once listSegments has returned
OpenSegments(w, segments) ==
  IF Len(segments) = 0 THEN SetOpened(openActiveForAppend(w, 1))
  ELSE SetOpened(RotateIfFull(StatActive(
         openActiveForAppend(
           World([w.be EXCEPT !.index = recoverIndex(w.be.index, w.disk, segments)],
                 w.disk, w.fds),
           segments[Len(segments)]))))

ensureOpened(w) == IF w.be.opened THEN w ELSE OpenSegments(w, listSegments(w.disk))

\* getReadFd when the descriptor has to be opened: cache it
CacheFd(w, fileId, o) ==
  [w |-> World([w.be EXCEPT !.fdCache = MapSet(w.be.fdCache, fileId, o.fd)],
               w.disk, o.fds),
   fd |-> o.fd]

\* getReadFd: the descriptor to read segment fileId through
getReadFd(w, fileId) ==
  IF fileId = w.be.activeId /\ w.be.activeFd # Null THEN [w |-> w, fd |-> w.be.activeFd]
  ELSE IF fileId \in DOMAIN w.be.fdCache THEN [w |-> w, fd |-> w.be.fdCache[fileId]]
  ELSE CacheFd(w, fileId, OpenSync(w.fds, fileId, "r"))

\* fsRead into a zero-filled buffer of n bytes: a short read leaves zeros
PadTo(got, n) == got \o Zeros(n - Len(got))
fsRead(w, fd, n, position) == PadTo(Slice(w.disk[w.fds[fd].file], position, n), n)

\* the StoredRecord get returns for a value buffer in the given encoding
DecodeStored(encoding, valueBuf, text, parsed, meta) ==
  IF (encoding = "json" \/ encoding = "clone") /\ ~parsed.ok
    THEN [found |-> TRUE, threw |-> TRUE, encoding |-> encoding, value |-> << >>,
          expiresAt |-> meta.expiresAt, metadata |-> meta.metadata,
          createdAt |-> meta.ts, updatedAt |-> meta.ts]
  ELSE [found |-> TRUE, threw |-> FALSE, encoding |-> encoding,
        value |-> IF encoding = "text" THEN text
                  ELSE IF encoding = "binary" THEN valueBuf
                  ELSE parsed.v,
        expiresAt |-> meta.expiresAt, metadata |-> meta.metadata,
        createdAt |-> meta.ts, updatedAt |-> meta.ts]

DecodeText(encoding, valueBuf, text, meta) ==
  DecodeStored(encoding, valueBuf, text, JSONParse(text), meta)

DecodeBuf(encoding, valueBuf, meta) ==
  DecodeText(encoding, valueBuf, Utf8Decode(valueBuf), meta)

\* get after the header has been read: the payload, then the value
ReadPayload(w, fd, meta, header, keyLen, valLen) ==
  DecodeBuf(encodings(header[6] \div 2),
            Slice(fsRead(w, fd, keyLen + valLen, meta.offset + HEADER_SIZE), keyLen, valLen),
            meta)

ParseHeader(w, fd, meta, header) ==
  ReadPayload(w, fd, meta, header, ReadU16LE(header, 6), ReadU32LE(header, 8))

\* the record get builds from the bytes the index entry points at
ReadRecord(w, fd, key, meta) ==
  ParseHeader(w, fd, meta, fsRead(w, fd, HEADER_SIZE, meta.offset))

NotFound ==
  [found |-> FALSE, threw |-> FALSE, encoding |-> "text", value |-> << >>,
   expiresAt |-> Null, metadata |-> Null, createdAt |-> 0, updatedAt |-> 0]

\* ------------------------------------------------------------ appends in flight
\* An append handed to fs.writev and the continuation that waits for it.
\* fg: the caller awaits it (FALSE for the lazy delete get starts with void).
\* adapter: the call is KVStorageAdapter's put or delete, which invalidates
\* the read cache when the backend's call has returned.
\* at: where the bytes landed, filled in when the write is carried out.
Task(op, key, fg, fd, bufs, writeOffset, entry) ==
  [op |-> op, key |-> key, fg |-> fg, fd |-> fd, bufs |-> bufs,
   totalLen |-> Len(bufs), writeOffset |-> writeOffset, entry |-> entry,
   phase |-> "submitted", at |-> [file |-> 0, offset |-> 0], adapter |-> fg]

NoEntry == IndexEntry(0, 0, 0, 0, Null, Null)

\* RotateFor that also rotates when the record fills the segment exactly
RotateForAtLimit(w, totalLen) ==
  IF w.be.activeSize + totalLen >= w.be.segmentMaxBytes THEN rotate(w) ELSE w

\* the rotation check of put and delete
RotateFor(w, totalLen) ==
  IF w.be.activeSize + totalLen > w.be.segmentMaxBytes THEN rotate(w) ELSE w

\* PutTask that sets the index entry before the append
PutTaskIndexFirst(r, record, bufs, fg) ==
  [w |-> World([r.be EXCEPT !.index =
                  MapSet(@, record.key,
                         IndexEntry(r.be.activeId, r.be.activeOffset, Len(bufs),
                                    record.updatedAt, record.expiresAt, record.metadata))],
               r.disk, r.fds),
   task |-> Task("put", record.key, fg, r.be.activeFd, bufs, r.be.activeOffset,
                 IndexEntry(r.be.activeId, r.be.activeOffset, Len(bufs),
                            record.updatedAt, record.expiresAt, record.metadata))]

\* put from writeOffset = activeOffset to the call of fsWritev
PutTask(r, record, bufs, fg) ==
  [w |-> r,
   task |-> Task("put", record.key, fg, r.be.activeFd, bufs, r.be.activeOffset,
                 IndexEntry(r.be.activeId, r.be.activeOffset, Len(bufs),
                            record.updatedAt, record.expiresAt, record.metadata))]

PutAppend(w, record, bufs, fg) == PutTask(RotateFor(w, Len(bufs)), record, bufs, fg)

\* put up to the call of fsWritev: rotation check, header, writeOffset
PutSubmit(w, record, fg) == PutAppend(w, record, PutBuffers(record), fg)

DeleteTask(r, key, bufs, fg) ==
  [w |-> r, task |-> Task("delete", key, fg, r.be.activeFd, bufs, 0, NoEntry)]

DeleteAppend(w, key, bufs, fg) == DeleteTask(RotateFor(w, Len(bufs)), key, bufs, fg)

\* delete of a key that has an index entry, up to the call of fsWritev
DeleteSubmit(w, key, nowMs, fg) == DeleteAppend(w, key, DeleteBuffers(key, nowMs), fg)

\* put after fsWritev has resolved
PutResume(b, t) ==
  [b EXCEPT !.activeOffset = @ + t.totalLen,
            !.activeSize = @ + t.totalLen,
            !.index = MapSet(@, t.key,
                        IndexEntry(b.activeId, t.writeOffset, t.totalLen,
                                   t.entry.ts, t.entry.expiresAt, t.entry.metadata))]

\* delete after fsWritev has resolved
DeleteResume(b, t) ==
  [b EXCEPT !.activeOffset = @ + t.totalLen,
            !.activeSize = @ + t.totalLen,
            !.index = MapDelete(@, t.key)]

\* ------------------------------------------------------------ list cursors
\* base64 digit -> character, in the alphabet encodeCursor leaves
\* (btoa, then + to -, / to _)
B64Char(i) ==
  IF i < 26 THEN 65 + i
  ELSE IF i < 52 THEN 97 + (i - 26)
  ELSE IF i < 62 THEN 48 + (i - 52)
  ELSE IF i = 62 THEN 45
  ELSE 95

\* character -> base64 digit after decodeCursor's - to +, _ to /; Null if none
B64Index(c) ==
  IF c >= 65 /\ c <= 90 THEN c - 65
  ELSE IF c >= 97 /\ c <= 122 THEN c - 97 + 26
  ELSE IF c >= 48 /\ c <= 57 THEN c - 48 + 52
  ELSE IF c = 45 \/ c = 43 THEN 62
  ELSE IF c = 95 \/ c = 47 THEN 63
  ELSE Null

\* btoa with the trailing = removed
RECURSIVE Base64Url(_)
Base64Url(b) ==
  IF Len(b) = 0 THEN << >>
  ELSE IF Len(b) = 1 THEN << B64Char(b[1] \div 4), B64Char((b[1] % 4) * 16) >>
  ELSE IF Len(b) = 2
    THEN << B64Char(b[1] \div 4), B64Char((b[1] % 4) * 16 + (b[2] \div 16)),
            B64Char((b[2] % 16) * 4) >>
  ELSE << B64Char(b[1] \div 4), B64Char((b[1] % 4) * 16 + (b[2] \div 16)),
          B64Char((b[2] % 16) * 4 + (b[3] \div 64)), B64Char(b[3] % 64) >>
       \o Base64Url(Slice(b, 3, Len(b) - 3))

\* atob of the re-padded text: [ok, v]; ok = FALSE where atob throws
RECURSIVE Base64Decode(_)
Base64Decode(c) ==
  IF Len(c) = 0 THEN [ok |-> TRUE, v |-> << >>]
  ELSE IF Len(c) = 1 THEN ParseError
  ELSE IF \E i \in 1..Min(4, Len(c)) : B64Index(c[i]) = Null THEN ParseError
  ELSE LET d1 == B64Index(c[1])
           d2 == B64Index(c[2])
       IN IF Len(c) = 2 THEN [ok |-> TRUE, v |-> << d1 * 4 + (d2 \div 16) >>]
          ELSE LET d3 == B64Index(c[3]) IN
            IF Len(c) = 3
              THEN [ok |-> TRUE,
                    v |-> << d1 * 4 + (d2 \div 16), (d2 % 16) * 16 + (d3 \div 4) >>]
            ELSE LET d4 == B64Index(c[4])
                     rest == Base64Decode(Slice(c, 4, Len(c) - 4))
                 IN IF ~rest.ok THEN ParseError
                    ELSE [ok |-> TRUE,
                          v |-> << d1 * 4 + (d2 \div 16), (d2 % 16) * 16 + (d3 \div 4),
                                   (d3 % 4) * 64 + d4 >> \o rest.v]

\* JSON.stringify({v: 1, prefix, after}) for strings that need no escaping:
\* {"v":1,"prefix":"...","after":"..."}
CursorJson(prefix, after) ==
  << 123, 34, 118, 34, 58, 49, 44, 34, 112, 114, 101, 102, 105, 120, 34, 58, 34 >>
    \o prefix \o << 34, 44, 34, 97, 102, 116, 101, 114, 34, 58, 34 >>
    \o after \o << 34, 125 >>

encodeCursor(prefix, after) == Base64Url(Utf8(CursorJson(prefix, after)))

\* the characters of s from position i up to the next double quote
RECURSIVE UntilQuote(_, _)
UntilQuote(s, i) ==
  IF i > Len(s) \/ s[i] = 34 THEN << >> ELSE <<s[i]>> \o UntilQuote(s, i + 1)

NoCursor == [ok |-> FALSE, prefix |-> << >>, after |-> << >>]

\* {"v":1,"prefix":"   and   ","after":"
CursorHead ==
  << 123, 34, 118, 34, 58, 49, 44, 34, 112, 114, 101, 102, 105, 120, 34, 58, 34 >>
CursorMid == << 34, 44, 34, 97, 102, 116, 101, 114, 34, 58, 34 >>

\* the parse of the cursor's JSON text, field by field
CursorEnd(json, prefix, after, end) ==
  IF Slice(json, end, 2) # << 34, 125 >> \/ Len(json) # end + 2 THEN NoCursor
  ELSE [ok |-> TRUE, prefix |-> prefix, after |-> after]

CursorAfter(json, prefix, at, after) ==
  CursorEnd(json, prefix, after, at + Len(CursorMid) + Len(after))

CursorPrefix(json, prefix, at) ==
  IF Slice(json, at, Len(CursorMid)) # CursorMid THEN NoCursor
  ELSE CursorAfter(json, prefix, at, UntilQuote(json, at + Len(CursorMid) + 1))

CursorFields(json, prefix) == CursorPrefix(json, prefix, Len(CursorHead) + Len(prefix))

CursorText(json) ==
  IF Slice(json, 0, Len(CursorHead)) # CursorHead THEN NoCursor
  ELSE CursorFields(json, UntilQuote(json, Len(CursorHead) + 1))

CursorBytes(raw) == IF ~raw.ok THEN NoCursor ELSE CursorText(Utf8Decode(raw.v))

\* decodeCursor: the cursor's prefix and after, or ok = FALSE (null)
decodeCursor(cursor) == CursorBytes(Base64Decode(cursor))

\* ------------------------------------------------------------ list
\* a < b for strings (code unit order, the order of Array.prototype.sort)
RECURSIVE StringLess(_, _)
StringLess(a, b) ==
  IF b = << >> THEN FALSE
  ELSE IF a = << >> THEN TRUE
  ELSE IF Head(a) # Head(b) THEN Head(a) < Head(b)
  ELSE StringLess(Tail(a), Tail(b))

startsWith(k, prefix) == Len(prefix) <= Len(k) /\ Slice(k, 0, Len(prefix)) = prefix

RECURSIVE SortStrings(_)
SortStrings(S) ==
  IF S = {} THEN << >>
  ELSE LET m == CHOOSE x \in S : \A y \in S : x = y \/ StringLess(x, y)
       IN <<m>> \o SortStrings(S \ {m})

ListOptions(prefix, limit, cursor) == [prefix |-> prefix, limit |-> limit, cursor |-> cursor]

\* ListSkips that lets a key through in the millisecond it expires
ListSkipsStrict(meta, nowMs) == Truthy(meta.expiresAt) /\ meta.expiresAt < nowMs

\* list: meta.expiresAt && meta.expiresAt <= now
ListSkips(meta, nowMs) == Truthy(meta.expiresAt) /\ meta.expiresAt <= nowMs

\* the for loop of list from keys[i] on
RECURSIVE ListLoop(_, _, _, _, _, _)
ListLoop(index, keys, i, nowMs, limit, acc) ==
  IF i > Len(keys) THEN acc
  ELSE IF Len(acc.keys) >= limit THEN [acc EXCEPT !.list_complete = FALSE]
  ELSE LET meta == index[keys[i]] IN
    IF ListSkips(meta, nowMs)
      THEN ListLoop(index, keys, i + 1, nowMs, limit, acc)
    ELSE ListLoop(index, keys, i + 1, nowMs, limit,
           [acc EXCEPT !.keys = Append(@,
                         [name |-> keys[i],
                          expiration |-> IF Truthy(meta.expiresAt)
                                           THEN toEpochSeconds(meta.expiresAt) ELSE Null,
                          metadata |-> IF Truthy(meta.metadata) THEN meta.metadata ELSE Null]),
                       !.lastKey = <<keys[i]>>])

\* the result of list once the loop has ended
ListResult(prefix, out) ==
  IF ~out.list_complete /\ out.lastKey # << >>
    THEN [keys |-> out.keys, list_complete |-> FALSE,
          cursor |-> encodeCursor(prefix, out.lastKey[1])]
  ELSE [keys |-> out.keys, list_complete |-> TRUE, cursor |-> << >>]

\* AfterCursor that starts again at the cursor's key
AfterCursorInclusive(sorted, decoded, prefix) ==
  IF decoded.ok /\ decoded.prefix = prefix
    THEN Slice(sorted,
               Cardinality({j \in 1..Len(sorted) : StringLess(sorted[j], decoded.after)}),
               Len(sorted))
  ELSE sorted

\* the keys after the cursor's key (all of them without a cursor)
AfterCursor(sorted, decoded, prefix) ==
  IF decoded.ok /\ decoded.prefix = prefix
    THEN Slice(sorted,
               Cardinality({j \in 1..Len(sorted) : ~StringLess(decoded.after, sorted[j])}),
               Len(sorted))
  ELSE sorted

\* Math.min(Math.max(1, limit ?? 1000), 10000)
ClampLimit(limit) ==
  Min(Max(1, IF limit = Null THEN LIST_DEFAULT_LIMIT ELSE limit), LIST_MAX_LIMIT)

\* list on an open instance: [keys, list_complete, cursor]; no cursor is << >>
list(index, nowMs, options) ==
  ListResult(options.prefix,
    ListLoop(index,
             AfterCursor(SortStrings({k \in DOMAIN index : startsWith(k, options.prefix)}),
                         IF options.cursor # << >> THEN decodeCursor(options.cursor)
                                                   ELSE NoCursor,
                         options.prefix),
             1, nowMs, ClampLimit(options.limit),
             [keys |-> << >>, lastKey |-> << >>, list_complete |-> TRUE]))

\* ------------------------------------------------------------ inputs
Keys == { <<97>>, <<97, 98>>, <<98>> }
Prefixes == { << >>, <<97>> }
Values == { StringValue(<<233>>), ObjectValue(<<1, 20>>), BytesValue(<<0, 255>>) }
WantTypes == { "text", "json", "arrayBuffer" }
\* expirationTtl 0, expirationTtl 1, expiration 0 (epoch seconds)
ExpiryOptions == { PutOptions(0, Null, Null), PutOptions(1, Null, Null),
                   PutOptions(Null, 0, Null) }
Limits == { 0, 1, 2 }

\* the decoding type that matches the type of a value given to put
MatchingType(value) ==
  IF value.type = "string" THEN "text"
  ELSE IF value.type = "object" THEN "json"
  ELSE "arrayBuffer"

\* ------------------------------------------------------------ timestamps
\* Date.now() at its full width: a number of milliseconds as 16-bit words,
\* lowest first (the third word holds bits 32 to 47)
Words(w0, w1, w2) == << w0, w1, w2 >>

\* x >>> 0: the low 32 bits
ToUint32Words(t) == Words(t[1], t[2], 0)

\* header.writeUInt32LE(x, 12) for x below 2^32: the four bytes
WriteUInt32LE(x) == << x[1] % 256, x[1] \div 256, x[2] % 256, x[2] \div 256 >>

\* header.readUInt32LE(12)
ReadUInt32LE(b) == Words(b[1] + 256 * b[2], b[3] + 256 * b[4], 0)

\* updatedAt: the record's timestamp; header: bytes 12 to 15 of the header put
\* wrote; ts: the timestamp of the index entry, which get returns as
\* createdAt and updatedAt
NoStamp == [state |-> "none", updatedAt |-> Words(0, 0, 0), header |-> << 0, 0, 0, 0 >>,
            ts |-> Words(0, 0, 0)]

\* ------------------------------------------------------------ state
VARIABLES
  be,       \* the NodeFileSystemStorageBackend instance in use
  disk,     \* the data directory: segment id -> bytes
  fds,      \* open file descriptors of the process
  tasks,    \* appends in flight, in the order they were handed to fs.writev
  now,      \* Date.now()
  ret,      \* what the caller's last KVStorageAdapter call returned
  session,  \* how many instances have been constructed on the directory
  appends,  \* records handed to fs.writev so far
  ticks,    \* clock advances so far
  hist,     \* per key: the caller's last completed put or delete
  lazy,     \* a lazy delete has been started by some get
  wrote,    \* a put or delete has been issued on the current instance
  closedIndex, \* the index as it was when close() last ran
  walk,     \* the pages fetched since the caller began a listing
  durable,  \* per key: the record that landed last in the segment files
  torn,     \* what the append cut short by a kill left behind (<< >>: no kill)
  kv,       \* the KVStorageAdapter in use: its read cache, its provider
  mem,      \* a KVStorageAdapter over MemoryStorageBackend given the same calls
  wrap,     \* a store wrapped by withKVFeatures and the call made on it
  stamp     \* a timestamp on its way through a record header and back

vars == << be, disk, fds, tasks, now, ret, session, appends, ticks, hist, lazy,
           wrote, closedIndex, walk, durable, torn, kv, mem, wrap, stamp >>

Absent == [type |-> "absent", v |-> << >>]
NoPage == [keys |-> << >>, list_complete |-> TRUE, cursor |-> << >>]
NoListOptions == ListOptions(<< >>, Null, << >>)

\* justPut: for a get, the value of the put of the same key that completed
\* right before it (Absent if the call before was anything else);
\* decrypts: how often the call has called the provider's decrypt;
\* handles: for a close, how many descriptors were open when it was called
Ret(op, key, status, value) ==
  [op |-> op, key |-> key, status |-> status, value |-> value, want |-> "text",
   expiresAt |-> Null, justPut |-> Absent, page |-> NoPage, opts |-> NoListOptions,
   at |-> now, decrypts |-> 0, overLazy |-> FALSE, handles |-> 0]

JustPut(k) ==
  IF ret.op = "put" /\ ret.status = "ok" /\ ret.key = k /\ ret.expiresAt = Null
    THEN ret.value ELSE Absent

NoHist ==
  [state |-> "none", value |-> Absent, expiresAt |-> Null, file |-> 0, offset |-> 0,
   files |-> {}, putSession |-> 0, delSession |-> 0]

NoWalk == [on |-> FALSE, prefix |-> << >>, limit |-> 0, names |-> << >>, pages |-> 0,
           first |-> 0]

\* ------------------------------------------------------------ MemoryStorageBackend
\* what a call on the adapter over MemoryStorageBackend returned
MemRet(status, value, page) == [status |-> status, value |-> value, page |-> page]

\* A KVStorageAdapter over a MemoryStorageBackend that is given the same
\* calls as the adapter over the file system (on), or is not there
Memory(on) == [on |-> on, data |-> EmptyMap, ret |-> MemRet("ok", Absent, NoPage)]

\* KVStorageAdapter.put over MemoryStorageBackend.put, rec being the record
\* the adapter built
MemoryPut(m, k, rec) ==
  IF ~m.on THEN m
  ELSE IF ~assertKey(k) THEN [m EXCEPT !.ret = MemRet("TypeError", Absent, NoPage)]
  ELSE [m EXCEPT !.data = MapSet(@, k, rec), !.ret = MemRet("ok", Absent, NoPage)]

\* KVStorageAdapter.delete over MemoryStorageBackend.delete
MemoryDelete(m, k) ==
  IF ~m.on THEN m
  ELSE IF ~assertKey(k) THEN [m EXCEPT !.ret = MemRet("TypeError", Absent, NoPage)]
  ELSE [m EXCEPT !.data = MapDelete(@, k), !.ret = MemRet("ok", Absent, NoPage)]

\* MemoryStorageBackend.get returns the record it holds
Fetched(rec) == [threw |-> FALSE] @@ rec

\* getWithMetadata once effectiveRecord is known
MemoryDecoded(m, effectiveRecord, want) ==
  IF effectiveRecord.threw THEN [m EXCEPT !.ret = MemRet("error", Thrown, NoPage)]
  ELSE LET decoded == decodeValue(effectiveRecord, want)
       IN [m EXCEPT !.ret = MemRet(IF decoded = Thrown THEN "error" ELSE "ok",
                                   decoded, NoPage)]

\* KVStorageAdapter.getWithMetadata over MemoryStorageBackend.get, cacheTtl 0:
\* the delete of an expired record is not awaited, and MemoryStorageBackend
\* carries it out before it yields
MemoryGet(m, k, want, nowMs, provider) ==
  IF ~m.on THEN m
  ELSE IF ~assertKey(k) THEN [m EXCEPT !.ret = MemRet("TypeError", Absent, NoPage)]
  ELSE IF k \notin DOMAIN m.data THEN [m EXCEPT !.ret = MemRet("ok", Absent, NoPage)]
  ELSE IF isExpired(m.data[k], nowMs)
    THEN [m EXCEPT !.data = MapDelete(@, k), !.ret = MemRet("ok", Absent, NoPage)]
  ELSE MemoryDecoded(m, IF provider THEN DecryptRecord(Fetched(m.data[k]))
                        ELSE Fetched(m.data[k]), want)

\* KVStorageAdapter.list over MemoryStorageBackend.list
MemoryList(m, nowMs, options) ==
  IF ~m.on THEN m
  ELSE [m EXCEPT !.ret = MemRet("ok", Absent, list(m.data, nowMs, options))]

\* KVStorageAdapter.close over MemoryStorageBackend.close: data.clear()
MemoryClose(m) == [m EXCEPT !.data = EmptyMap]

\* ------------------------------------------------------------ withKVFeatures
\* WrapperOptions as withKVFeatures destructures them
WrapperOptions(prefix, validateKeys, attempts, time) ==
  [prefix |-> prefix, validateKeys |-> validateKeys, retry |-> [attempts |-> attempts],
   time |-> time]

\* withKVFeatures(base): prefix "", validateKeys true, attempts 1, time false
DefaultOptions == WrapperOptions(<< >>, TRUE, 1, FALSE)

KeyMethods == {"get", "getWithMetadata", "put", "delete"}
keyIndex(methodStr) == IF methodStr \in KeyMethods THEN 0 ELSE -1

\* the code units String.prototype.trim removes that a key of the model can hold
WhiteSpace == {9, 10, 11, 12, 13, 32, 160}

RECURSIVE TrimStart(_)
TrimStart(s) == IF s # << >> /\ Head(s) \in WhiteSpace THEN TrimStart(Tail(s)) ELSE s

RECURSIVE TrimEnd(_)
TrimEnd(s) ==
  IF s # << >> /\ s[Len(s)] \in WhiteSpace THEN TrimEnd(SubSeq(s, 1, Len(s) - 1)) ELSE s

trim(s) == TrimEnd(TrimStart(s))

\* typeof rawKey === "string"
TypeofString(rawKey) == \A i \in 1..Len(rawKey) : rawKey[i] # Null

\* the validation that tests the key as it is, untrimmed
InvalidKeyUntrimmed(rawKey) == ~TypeofString(rawKey) \/ rawKey = << >>

\* typeof rawKey !== "string" || rawKey.trim() === ""
InvalidKey(rawKey) == ~TypeofString(rawKey) \/ trim(rawKey) = << >>

prefixedKey(prefix, key) == IF prefix # << >> THEN prefix \o key ELSE key

Undefined == "undefined"
NoResult == [status |-> "none", v |-> Undefined]

\* the wrapped store: its options, the wrapped call in progress (pc is
\* "awaiting" while an invocation of the base method is in flight), and what
\* the call has done so far: the arguments of its invocations of the base
\* method, their outcomes, the calls of onError and of metrics
withKVFeatures(opts) ==
  [opts |-> opts, pc |-> "idle", method |-> "none", rawKey |-> << >>,
   effectiveArgs |-> << >>, attempt |-> 0, lastError |-> Undefined,
   invoked |-> << >>, outcomes |-> << >>, onError |-> << >>, metrics |-> << >>,
   result |-> NoResult]

\* the wrapped method is called with rawKey as its first argument
Called(w, methodStr, rawKey) ==
  [withKVFeatures(w.opts) EXCEPT !.method = methodStr, !.rawKey = rawKey,
                                 !.effectiveArgs = rawKey]

\* the promise of the wrapped call settles
Settle(w, status, v) == [w EXCEPT !.pc = "idle", !.result = [status |-> status, v |-> v]]

\* while (attempt < retry.attempts) { attempt++; await original.apply(...) },
\* and throw lastError behind the loop
RetryLoop(w) ==
  IF w.attempt < w.opts.retry.attempts
    THEN [w EXCEPT !.attempt = @ + 1, !.pc = "awaiting",
                   !.invoked = Append(@, [method |-> w.method, key |-> w.effectiveArgs])]
  ELSE Settle(w, "rejected", w.lastError)

\* 1. Pre-processing / validation, then the retry loop
PreProcess(w) ==
  IF w.opts.validateKeys /\ keyIndex(w.method) >= 0
    THEN IF InvalidKey(w.rawKey) THEN Settle(w, "rejected", "TypeError")
         ELSE RetryLoop([w EXCEPT !.effectiveArgs = prefixedKey(w.opts.prefix, w.rawKey)])
  ELSE RetryLoop(w)

\* the async function wrapMethod returns, up to its first await
wrapMethod(w, methodStr, rawKey) == PreProcess(Called(w, methodStr, rawKey))

Metrics(w, success) == IF w.opts.time THEN [w EXCEPT !.metrics = Append(@, success)] ELSE w

\* try: the base method resolved with result
Resolved(w, result) ==
  Settle(Metrics([w EXCEPT !.outcomes = Append(@, [status |-> "resolved", v |-> result])],
                 TRUE),
         "resolved", result)

\* the catch block that gives up one attempt early
CaughtEarly(w, err) ==
  LET v == [w EXCEPT !.lastError = err,
                     !.outcomes = Append(@, [status |-> "rejected", v |-> err])]
  IN IF v.attempt + 1 = v.opts.retry.attempts
       THEN Settle(Metrics([v EXCEPT !.onError =
                                       Append(@, [method |-> v.method, error |-> err])],
                           FALSE),
                   "rejected", err)
     ELSE RetryLoop(v)

\* catch (err): the base method rejected with err
Caught(w, err) ==
  LET v == [w EXCEPT !.lastError = err,
                     !.outcomes = Append(@, [status |-> "rejected", v |-> err])]
  IN IF v.attempt = v.opts.retry.attempts
       THEN Settle(Metrics([v EXCEPT !.onError =
                                       Append(@, [method |-> v.method, error |-> err])],
                           FALSE),
                   "rejected", err)
     ELSE RetryLoop(v)

\* the state after the constructors, for the adapter constructed, the adapter
\* over MemoryStorageBackend and the wrapped store
StartOver(adapter, memory, wrapped) ==
  /\ kv = adapter
  /\ mem = memory
  /\ wrap = wrapped
  /\ be = NewBackend
  /\ disk = EmptyMap
  /\ fds = EmptyMap
  /\ tasks = << >>
  /\ now = 1000
  /\ ret = Ret("none", << >>, "ok", Absent)
  /\ session = 1
  /\ appends = 0
  /\ ticks = 0
  /\ hist = [k \in Keys |-> NoHist]
  /\ lazy = FALSE
  /\ wrote = FALSE
  /\ closedIndex = EmptyMap
  /\ walk = NoWalk
  /\ durable = EmptyMap
  /\ torn = << >>
  /\ stamp = NoStamp

\* the state after the constructor of the adapter alone
Start(adapter) == StartOver(adapter, Memory(FALSE), withKVFeatures(DefaultOptions))

\* an adapter without options
Init == Start(KVStorageAdapter(Null, FALSE))

\* the caller awaits every call: no call of its own is in flight, but for
\* the calls that wait for an initialize() that has not settled
Idle ==
  /\ \A i \in 1..Len(tasks) : ~tasks[i].fg
  /\ kv.waiting = << >> \/ kv.encryptionReady = "pending"

Remove(seq, i) == [j \in 1..(Len(seq) - 1) |-> IF j < i THEN seq[j] ELSE seq[j + 1]]

SetWorld(w) == be' = w.be /\ disk' = w.disk /\ fds' = w.fds

\* ------------------------------------------------------------ operations
\* an append is handed to fs.writev: s is what PutSubmit / DeleteSubmit built
Submit(s) ==
  /\ appends < MaxAppends
  /\ SetWorld(s.w)
  /\ tasks' = Append(tasks, s.task)
  /\ appends' = appends + 1

\* assertKey throws: the call ends with a TypeError
Rejected(op, k) ==
  /\ ret' = Ret(op, k, "TypeError", Absent)
  /\ UNCHANGED << be, disk, fds, tasks, now, session, appends, ticks, hist, lazy, wrote,
                  closedIndex, walk, durable, torn, kv >>

\* rec of KVStorageAdapter.put
PutRecord(rec) == IF kv.encryptionProvider THEN EncryptedRecord(rec) ELSE rec

\* a delete of k that get started without awaiting it has not completed
LazyInFlight(k) ==
  \E i \in 1..Len(tasks) : tasks[i].op = "delete" /\ ~tasks[i].fg /\ tasks[i].key = k

\* put from the await of ensureEncryptionReady on, up to the append of
\* backend.put; tracked: it is the call made last, whose outcome ret holds
PutReady(k, v, o, tracked) ==
  /\ Submit([PutSubmit(ensureOpened(World(be, disk, fds)),
                       PutRecord(AdapterRecord(k, v, o, now)), tracked)
               EXCEPT !.task.adapter = TRUE])
  /\ ret' = IF tracked
              THEN [Ret("put", k, "pending", v)
                      EXCEPT !.expiresAt = computeExpiresAtMs(o, now),
                             !.overLazy = LazyInFlight(k)]
            ELSE ret
  /\ wrote' = TRUE
  /\ walk' = NoWalk
  /\ UNCHANGED << now, session, ticks, hist, lazy, closedIndex, durable, torn >>

\* put waits for initialize(), which it has called if no call before it had
PutWaits(k, v, o) ==
  /\ Len(kv.waiting) < MaxWaiting
  /\ ret' = Ret("put", k, "pending", v)
  /\ kv' = Park(ensureEncryptionReady(kv), Call("put", k, v, o, "text", 0, NotFound))
  /\ UNCHANGED << be, disk, fds, tasks, now, session, appends, ticks, hist, lazy, wrote,
                  closedIndex, walk, durable, torn >>

\* the await of ensureEncryptionReady throws what initialize() rejected with
InitThrows(op, k) ==
  /\ ret' = Ret(op, k, "InitError", Absent)
  /\ UNCHANGED << be, disk, fds, tasks, now, session, appends, ticks, hist, lazy, wrote,
                  closedIndex, walk, durable, torn, kv >>

\* put once assertKey has passed: await this.ensureEncryptionReady()
PutAwaited(k, v, o, awaited) ==
  IF awaited = "wait" THEN PutWaits(k, v, o)
  ELSE IF awaited = "throw" THEN InitThrows("put", k)
  ELSE PutReady(k, v, o, TRUE) /\ kv' = Crypt(ensureEncryptionReady(kv))

\* KVStorageAdapter.put(k, v, o) up to the append of backend.put
KvPut(k, v, o) ==
  /\ mem' = MemoryPut(mem, k, PutRecord(AdapterRecord(k, v, o, now)))
  /\ wrap' = wrap
  /\ stamp' = stamp
  /\ Idle
  /\ IF ~assertKey(k) THEN Rejected("put", k)
     ELSE PutAwaited(k, v, o, Awaited(ensureEncryptionReady(kv)))

\* DeleteOpened without the look at the index
DeleteOpenedUnchecked(w, k) ==
  /\ Submit(DeleteSubmit(w, k, now, TRUE))
  /\ ret' = Ret("delete", k, "pending", Absent)
  /\ hist' = hist
  /\ kv' = kv

\* backend.delete(k) on the opened instance: it returns at once when the index
\* has no entry (and the adapter invalidates the cache), and appends a
\* tombstone otherwise
DeleteOpened(w, k) ==
  IF k \notin DOMAIN w.be.index
    THEN /\ SetWorld(w)
         /\ ret' = Ret("delete", k, "ok", Absent)
         /\ hist' = [hist EXCEPT ![k].state = "deleted", ![k].delSession = session]
         /\ kv' = [kv EXCEPT !.cache = invalidateCache(@, k), !.reading = Overlapped(@, k)]
         /\ UNCHANGED << tasks, appends >>
  ELSE /\ Submit(DeleteSubmit(w, k, now, TRUE))
       /\ ret' = Ret("delete", k, "pending", Absent)
       /\ hist' = hist
       /\ kv' = kv

\* KVStorageAdapter.delete(k)
KvDelete(k) ==
  /\ mem' = MemoryDelete(mem, k)
  /\ wrap' = wrap
  /\ stamp' = stamp
  /\ Idle
  /\ IF ~assertKey(k) THEN Rejected("delete", k)
     ELSE /\ DeleteOpened(ensureOpened(World(be, disk, fds)), k)
          /\ wrote' = TRUE
          /\ walk' = NoWalk
          /\ UNCHANGED << now, session, ticks, lazy, closedIndex, durable, torn >>

\* what get returns to the caller
GetRet(k, want, status, value) ==
  [Ret("get", k, status, value) EXCEPT !.want = want, !.justPut = JustPut(k)]

\* get finds the entry expired: it starts a delete it does not await and
\* returns null
GetExpired(w, k, want) ==
  /\ Submit(DeleteSubmit(w, k, now, FALSE))
  /\ ret' = GetRet(k, want, "ok", Absent)
  /\ lazy' = TRUE

\* get returns without having started a delete, after n calls of decrypt
GetReturnAfter(w, k, want, status, value, n) ==
  /\ SetWorld(w)
  /\ ret' = [GetRet(k, want, status, value) EXCEPT !.decrypts = n]
  /\ UNCHANGED << tasks, appends, lazy >>

\* get returns without having started a delete
GetReturn(w, k, want, status, value) == GetReturnAfter(w, k, want, status, value, 0)

GetDecoded(w, k, want, decoded) ==
  GetReturn(w, k, want, IF decoded = Thrown THEN "error" ELSE "ok", decoded)

\* getWithMetadata finds the record expired: it starts KVStorageAdapter.delete,
\* which it does not await, and returns null; s is the append of that delete
GetLazy(s, k, want) ==
  /\ Submit([s EXCEPT !.task.adapter = TRUE])
  /\ ret' = GetRet(k, want, "ok", Absent)
  /\ lazy' = TRUE

\* getWithMetadata once effectiveRecord is known
GetEffective(w, k, want, effectiveRecord) ==
  IF effectiveRecord.threw THEN GetReturn(w, k, want, "error", Thrown)
  ELSE GetDecoded(w, k, want, decodeValue(effectiveRecord, want))

\* what getWithMetadata comes to once ensureEncryptionReady has let it go
\* on: the record is no binary one (it throws), decrypt throws the
\* provider's error, or the decrypted record is decoded
Outcome(status, value, decrypts) == [status |-> status, value |-> value, decrypts |-> decrypts]

DecodedOutcome(effectiveRecord, want, decoded) ==
  IF effectiveRecord.threw THEN Outcome("error", Thrown, 1)
  ELSE Outcome(IF decoded = Thrown THEN "error" ELSE "ok", decoded, 1)

DecryptOutcome(a, rec, want) ==
  IF rec.encoding # "binary" THEN Outcome("error", Thrown, 0)
  ELSE IF a.provider.failing THEN Outcome("DecryptionError", Thrown, 1)
  ELSE DecodedOutcome(DecryptRecord(rec), want, decodeValue(DecryptRecord(rec), want))

\* getWithMetadata waits for initialize()
GetWaits(w, k, want) ==
  /\ Len(kv.waiting) < MaxWaiting
  /\ SetWorld(w)
  /\ ret' = GetRet(k, want, "pending", Absent)
  /\ UNCHANGED << tasks, appends, lazy >>

GetOutcome(w, k, want, o) == GetReturnAfter(w, k, want, o.status, o.value, o.decrypts)

\* getWithMetadata with a provider, at await this.ensureEncryptionReady()
GetEncrypted(w, k, want, rec, awaited) ==
  IF awaited = "wait" THEN GetWaits(w, k, want)
  ELSE IF awaited = "throw" THEN GetReturn(w, k, want, "InitError", Absent)
  ELSE GetOutcome(w, k, want, DecryptOutcome(kv, rec, want))

\* getWithMetadata once backend.get has returned rec
GetRecord(w, k, want, rec) ==
  IF rec.threw THEN GetReturn(w, k, want, "error", Thrown)
  ELSE IF isExpired(rec, now) THEN GetLazy(DeleteSubmit(w, k, now, FALSE), k, want)
  ELSE IF kv.encryptionProvider
    THEN GetEncrypted(w, k, want, rec, Awaited(ensureEncryptionReady(kv)))
  ELSE GetEffective(w, k, want, rec)

\* backend.get once the read descriptor is known
GetRead(g, k, want, meta) == GetRecord(g.w, k, want, ReadRecord(g.w, g.fd, k, meta))

\* get: meta.expiresAt && meta.expiresAt <= nowMs()
EntryExpired(meta, nowMs) == Truthy(meta.expiresAt) /\ meta.expiresAt <= nowMs

\* backend.get once the index entry is known
GetEntry(w, k, want, meta) ==
  IF EntryExpired(meta, now) THEN GetExpired(w, k, want)
  ELSE GetRead(getReadFd(w, meta.fileId), k, want, meta)

GetOpened(w, k, want) ==
  IF k \notin DOMAIN w.be.index THEN GetReturn(w, k, want, "ok", Absent)
  ELSE GetEntry(w, k, want, w.be.index[k])

\* the record backend.get returns for a key that the index holds
BackendRecord(k) ==
  LET w == ensureOpened(World(be, disk, fds))
      g == getReadFd(w, w.be.index[k].fileId)
  IN ReadRecord(g.w, g.fd, k, w.be.index[k])

\* getWithMetadata that comes to cache.set with what decrypt threw as well
DecodedOrThrown(r) == r.value # Absent

\* getWithMetadata came to cache.set: it returned a decoded value (the
\* returns before it give null, a throw gives an error)
Decoded(r) == r.status = "ok" /\ r.value # Absent

\* getWithMetadata that has nothing from the cache: backend.get, the expiry
\* checks of both layers (each starts a delete it does not await), the
\* decoding, and cache.set when cacheTtl > 0; c is the cache after the lookup
GetMiss(k, want, cacheTtl, c) ==
  /\ GetOpened(ensureOpened(World(be, disk, fds)), k, want)
  /\ kv' = IF ret'.status = "pending"
             THEN Park(ensureEncryptionReady([kv EXCEPT !.cache = c]),
                       Call("get", k, Absent, NoOptions, want, cacheTtl, BackendRecord(k)))
           ELSE [(IF ret'.decrypts > 0 THEN Crypt(ensureEncryptionReady(kv)) ELSE kv)
                   EXCEPT !.cache =
                   IF cacheTtl > 0 /\ Decoded(ret')
                     THEN TinyLRU_set(c, cacheKey(k, want), ret'.value,
                                      be'.index[k].metadata, cacheTtl, now)
                   ELSE c]

\* getWithMetadata returns what the cache holds
GetHit(k, want, hit) ==
  /\ ret' = GetRet(k, want, "ok", hit.value)
  /\ UNCHANGED << be, disk, fds, tasks, appends, lazy, kv >>

\* getWithMetadata with a cacheKey, once cache.get has returned
GetLookup(k, want, cacheTtl, looked) ==
  IF looked.hit.found THEN GetHit(k, want, looked.hit)
  ELSE GetMiss(k, want, cacheTtl, looked.cache)

\* KVStorageAdapter.get(k, {type: want, cacheTtl})
KvGetCached(k, want, cacheTtl) ==
  /\ mem' = MemoryGet(mem, k, want, now, kv.encryptionProvider)
  /\ wrap' = wrap
  /\ stamp' = stamp
  /\ Idle
  /\ IF ~assertKey(k) THEN Rejected("get", k)
     ELSE /\ IF cacheTtl > 0
               THEN GetLookup(k, want, cacheTtl,
                              TinyLRU_get(kv.cache, cacheKey(k, want), now))
             ELSE GetMiss(k, want, cacheTtl, kv.cache)
          /\ walk' = NoWalk
          /\ UNCHANGED << now, session, ticks, hist, wrote, closedIndex, durable, torn >>

\* KVStorageAdapter.get(k, {type: want}): cacheTtl is 0
KvGet(k, want) == KvGetCached(k, want, 0)

\* the bytes of task t (tasks[i]) land at the end of the file its descriptor
\* is open on (O_APPEND)
Landed(t, i, file) ==
  /\ disk' = [disk EXCEPT ![file] = @ \o t.bufs]
  /\ tasks' = [tasks EXCEPT ![i].phase = "written",
                            ![i].at = [file |-> file, offset |-> Len(disk[file])]]
  /\ durable' = IF t.op = "put"
                  THEN MapSet(durable, t.key,
                         IndexEntry(file, Len(disk[file]), t.totalLen, t.entry.ts,
                                    IF Truthy(t.entry.expiresAt) THEN t.entry.expiresAt
                                                                 ELSE Null,
                                    Null))
                ELSE MapDelete(durable, t.key)

\* the operating system carries out the writev of task i
AppendWritten(i) ==
  /\ mem' = mem
  /\ wrap' = wrap
  /\ stamp' = stamp
  /\ i \in 1..Len(tasks)
  /\ tasks[i].phase = "submitted"
  /\ tasks[i].fd \in DOMAIN fds
  /\ fds[tasks[i].fd].mode = "a+"
  /\ Landed(tasks[i], i, fds[tasks[i].fd].file)
  /\ UNCHANGED << be, fds, now, ret, session, appends, ticks, hist, lazy, wrote,
                  closedIndex, walk, torn, kv >>

\* fsWritev rejects: the awaiting put or delete throws, nothing was written
AppendFailed(i) ==
  /\ mem' = mem
  /\ wrap' = wrap
  /\ stamp' = stamp
  /\ i \in 1..Len(tasks)
  /\ tasks[i].phase = "submitted"
  /\ tasks' = Remove(tasks, i)
  /\ ret' = IF tasks[i].fg THEN [ret EXCEPT !.status = "error"] ELSE ret
  /\ UNCHANGED << be, disk, fds, now, session, appends, ticks, hist, lazy, wrote,
                  closedIndex, walk, durable, torn, kv >>

\* fsWritev resolves and the put or delete that awaited it runs to its end;
\* KVStorageAdapter's put or delete then invalidates the cache
AppendDone(i) ==
  /\ mem' = mem
  /\ wrap' = wrap
  /\ stamp' = stamp
  /\ i \in 1..Len(tasks)
  /\ tasks[i].phase = "written"
  /\ LET t == tasks[i] IN
       /\ be' = IF t.op = "put" THEN PutResume(be, t) ELSE DeleteResume(be, t)
       /\ tasks' = Remove(tasks, i)
       /\ ret' = IF t.fg THEN [ret EXCEPT !.status = "ok"] ELSE ret
       /\ kv' = IF t.adapter
                  THEN [kv EXCEPT !.cache = invalidateCache(@, t.key),
                                  !.reading = Overlapped(@, t.key)]
                ELSE kv
       /\ hist' = IF ~t.fg THEN hist
                  ELSE IF t.op = "put"
                    THEN [hist EXCEPT ![t.key] =
                           [state |-> "live", value |-> ret.value,
                            expiresAt |-> t.entry.expiresAt,
                            file |-> t.at.file, offset |-> t.at.offset,
                            files |-> (IF @.state = "live" THEN @.files ELSE {})
                                        \cup {t.at.file},
                            putSession |-> session, delSession |-> @.delSession]]
                  ELSE [hist EXCEPT ![t.key].state = "deleted",
                                    ![t.key].delSession = session]
  /\ walk' = NoWalk
  /\ UNCHANGED << disk, fds, now, session, appends, ticks, lazy, wrote, closedIndex,
                  durable, torn >>

\* the names of a page's keys
Names(page) == [j \in 1..Len(page.keys) |-> page.keys[j].name]

\* ListReturn after a list that removes the expired entries it passes over
ListReturnPurging(w, opts, page) ==
  /\ SetWorld(World([w.be EXCEPT !.index =
                      [k \in {x \in DOMAIN @ : ~ListSkips(@[x], now)} |-> @[k]]],
                    w.disk, w.fds))
  /\ ret' = [Ret("list", << >>, "ok", Absent) EXCEPT !.page = page, !.opts = opts]
  /\ walk' = IF opts.cursor = << >>
               THEN [on |-> TRUE, prefix |-> opts.prefix, limit |-> opts.limit,
                     names |-> Names(page), pages |-> 1, first |-> Len(page.keys)]
             ELSE [walk EXCEPT !.names = @ \o Names(page), !.pages = @ + 1]

\* list returns page to the caller
ListReturn(w, opts, page) ==
  /\ SetWorld(w)
  /\ ret' = [Ret("list", << >>, "ok", Absent) EXCEPT !.page = page, !.opts = opts]
  /\ walk' = IF opts.cursor = << >>
               THEN [on |-> TRUE, prefix |-> opts.prefix, limit |-> opts.limit,
                     names |-> Names(page), pages |-> 1, first |-> Len(page.keys)]
             ELSE [walk EXCEPT !.names = @ \o Names(page), !.pages = @ + 1]

ListOpened(w, opts) == ListReturn(w, opts, list(w.be.index, now, opts))

\* KVStorageAdapter.list(options): the first page of a listing
KvList(prefix, limit) ==
  /\ mem' = MemoryList(mem, now, ListOptions(prefix, limit, << >>))
  /\ wrap' = wrap
  /\ stamp' = stamp
  /\ Idle
  /\ ListOpened(ensureOpened(World(be, disk, fds)), ListOptions(prefix, limit, << >>))
  /\ UNCHANGED << tasks, now, session, appends, ticks, hist, lazy, wrote, closedIndex,
                  durable, torn, kv >>

\* the next page of the listing, with the cursor the last page returned
KvListNext ==
  /\ mem' = MemoryList(mem, now, ListOptions(walk.prefix, walk.limit, mem.ret.page.cursor))
  /\ wrap' = wrap
  /\ stamp' = stamp
  /\ Idle
  /\ walk.on
  /\ ret.op = "list"
  /\ ~ret.page.list_complete
  /\ ListOpened(ensureOpened(World(be, disk, fds)),
                ListOptions(walk.prefix, walk.limit, ret.page.cursor))
  /\ UNCHANGED << tasks, now, session, appends, ticks, hist, lazy, wrote, closedIndex,
                  durable, torn, kv >>

\* a new adapter with the options and the provider of adapter a
NewAdapter(a) ==
  [a EXCEPT !.cache = TinyLRU_clear(@), !.encryptionReady = "null", !.waiting = << >>,
            !.reading = << >>,
            !.provider.initCalls = 0, !.provider.early = FALSE]

\* CloseAll that leaves the cached read descriptors open
CloseActiveOnly(b, f) == IF b.activeFd # Null THEN MapDelete(f, b.activeFd) ELSE f

\* close(): closeSync of the active descriptor and of every cached one
CloseAll(b, f) ==
  LET closedActive == IF b.activeFd # Null THEN MapDelete(f, b.activeFd) ELSE f
  IN [fd \in (DOMAIN closedActive) \ {b.fdCache[id] : id \in DOMAIN b.fdCache}
        |-> closedActive[fd]]

\* KVStorageAdapter.close(): backend.close(), cache.clear()
Close ==
  /\ mem' = MemoryClose(mem)
  /\ wrap' = wrap
  /\ stamp' = stamp
  /\ Idle
  /\ kv.waiting = << >>
  /\ be.opened
  /\ fds' = CloseAll(be, fds)
  /\ be' = [be EXCEPT !.activeFd = Null, !.fdCache = EmptyMap, !.opened = FALSE]
  /\ closedIndex' = be.index
  /\ kv' = [kv EXCEPT !.cache = TinyLRU_clear(@)]
  /\ ret' = [Ret("close", << >>, "ok", Absent) EXCEPT !.handles = Cardinality(DOMAIN fds)]
  /\ walk' = NoWalk
  /\ UNCHANGED << disk, tasks, now, session, appends, ticks, hist, lazy, wrote, durable,
                  torn >>

\* the closed instance is dropped and a new one constructed on the
\* directory, under a new adapter with the same options
NewInstance ==
  /\ mem' = MemoryClose(mem)
  /\ wrap' = wrap
  /\ stamp' = stamp
  /\ ~be.opened
  /\ ret.op = "close"
  /\ tasks = << >>
  /\ session < MaxSessions
  /\ be' = NewBackend
  /\ kv' = NewAdapter(kv)
  /\ session' = session + 1
  /\ wrote' = FALSE
  /\ ret' = Ret("none", << >>, "ok", Absent)
  /\ UNCHANGED << disk, fds, tasks, now, appends, ticks, hist, lazy, closedIndex, walk,
                  durable, torn >>

\* what a killed process can leave behind the last complete record: nothing
\* a header can be read from, a header without magic, or the first bytes of
\* the records whose append was in flight
Torn(bufs) == { SubSeq(bufs, 1, n) : n \in {1, 4, HEADER_SIZE - 1, HEADER_SIZE, Len(bufs) - 1} }
Garbage ==
  { <<0>>, Zeros(HEADER_SIZE), Zeros(HEADER_SIZE + 6) }
    \cup UNION { Torn(tasks[i].bufs) : i \in { j \in 1..Len(tasks) : tasks[j].phase = "submitted" } }

\* the process is killed: its descriptors and the appends in flight are gone,
\* g is what the interrupted append left at the end of the active segment; a
\* new instance is then constructed on the directory
Crash(g) ==
  /\ mem' = MemoryClose(mem)
  /\ wrap' = wrap
  /\ stamp' = stamp
  /\ torn = << >>
  /\ be.opened
  /\ session < MaxSessions
  /\ disk' = [disk EXCEPT ![be.activeId] = @ \o g]
  /\ be' = NewBackend
  /\ kv' = NewAdapter(kv)
  /\ fds' = EmptyMap
  /\ tasks' = << >>
  /\ session' = session + 1
  /\ torn' = g
  /\ wrote' = FALSE
  /\ ret' = Ret("none", << >>, "ok", Absent)
  /\ walk' = NoWalk
  /\ UNCHANGED << now, appends, ticks, hist, lazy, closedIndex, durable >>

\* time passes
Tick ==
  /\ mem' = mem
  /\ wrap' = wrap
  /\ stamp' = stamp
  /\ ticks < MaxTicks
  /\ now' = now + 1000
  /\ ticks' = ticks + 1
  /\ walk' = NoWalk
  /\ UNCHANGED << be, disk, fds, tasks, ret, session, appends, hist, lazy, wrote,
                  closedIndex, durable, torn, kv >>

\* appends carried out and completed, in any order
Appends ==
  \/ \E i \in 1..Len(tasks) : AppendWritten(i)
  \/ \E i \in 1..Len(tasks) : AppendDone(i)

TwoKeys == { <<97>>, <<98>> }
Text == StringValue(<<233>>)

\* One instance: values of every type, puts that expire at once, get, delete.
Next ==
  \/ \E k \in TwoKeys, v \in Values : KvPut(k, v, NoOptions)
  \/ \E k \in TwoKeys : KvPut(k, Text, PutOptions(0, Null, Null))
  \/ \E k \in TwoKeys : KvDelete(k)
  \/ \E k \in TwoKeys, want \in WantTypes : KvGet(k, want)
  \/ Appends

Spec == Init /\ [][Next]_vars

\* One instance: every expiry option, the clock, get and list.
NextExpiry ==
  \/ \E k \in TwoKeys, o \in ExpiryOptions \cup {NoOptions} : KvPut(k, Text, o)
  \/ \E k \in TwoKeys : KvGet(k, "text")
  \/ Appends
  \/ KvList(<< >>, Null)
  \/ Tick

SpecExpiry == Init /\ [][NextExpiry]_vars

\* One instance whose appends can fail.
NextIO ==
  \/ \E k \in TwoKeys, v \in {Text, BytesValue(<<0, 255>>)} : KvPut(k, v, NoOptions)
  \/ \E k \in TwoKeys : KvDelete(k)
  \/ \E k \in TwoKeys : KvGet(k, "text")
  \/ Appends
  \/ \E i \in 1..Len(tasks) : AppendFailed(i)

SpecIO == Init /\ [][NextIO]_vars

\* Instances that follow one another on the directory: close, then reopen.
NextRestart ==
  \/ \E k \in TwoKeys, v \in {Text, ObjectValue(<<1, 20>>)} : KvPut(k, v, NoOptions)
  \/ \E k \in TwoKeys : KvDelete(k)
  \/ \E k \in TwoKeys : KvGet(k, MatchingType(hist[k].value))
  \/ Appends
  \/ KvList(<< >>, Null)
  \/ Close
  \/ NewInstance

SpecRestart == Init /\ [][NextRestart]_vars

\* One instance: listings page by page over up to three keys.
NextList ==
  \/ \E k \in Keys, o \in {NoOptions, PutOptions(0, Null, Null)} : KvPut(k, Text, o)
  \/ \E k \in Keys : KvDelete(k)
  \/ Appends
  \/ \E prefix \in Prefixes, limit \in Limits : KvList(prefix, limit)
  \/ KvListNext

SpecList == Init /\ [][NextList]_vars

\* One instance that is killed, with an append cut short, and its successor.
NextCrash ==
  \/ \E k \in TwoKeys, v \in {Text, ObjectValue(<<1, 20>>)} : KvPut(k, v, NoOptions)
  \/ \E k \in TwoKeys : KvDelete(k)
  \/ \E k \in TwoKeys : KvGet(k, MatchingType(hist[k].value))
  \/ Appends
  \/ \E g \in Garbage : Crash(g)

SpecCrash == Init /\ [][NextCrash]_vars

\* something outside the process cuts segment file id down to n bytes
Truncate(id, n) ==
  /\ mem' = mem
  /\ wrap' = wrap
  /\ stamp' = stamp
  /\ tasks = << >>
  /\ id \in DOMAIN disk
  /\ n < Len(disk[id])
  /\ disk' = [disk EXCEPT ![id] = SubSeq(@, 1, n)]
  /\ ret' = Ret("none", << >>, "ok", Absent)
  /\ walk' = NoWalk
  /\ UNCHANGED << be, fds, tasks, now, session, appends, ticks, hist, lazy, wrote,
                  closedIndex, durable, torn, kv >>

\* One instance whose segment files are cut short from outside, after the
\* last record has been written.
NextTruncate ==
  \/ \E k \in TwoKeys, v \in {Text, ObjectValue(<<1, 20>>)} : KvPut(k, v, NoOptions)
  \/ \E k \in TwoKeys : KvGet(k, MatchingType(hist[k].value))
  \/ Appends
  \/ /\ appends = MaxAppends
     /\ \E id \in DOMAIN disk, n \in {0, HEADER_SIZE, HEADER_SIZE + 2, HEADER_SIZE + 7} :
          Truncate(id, n)

SpecTruncate == Init /\ [][NextTruncate]_vars

\* the decoding types of get
GetTypes == { "text", "json", "arrayBuffer", "stream" }
\* keys assertKey refuses: the empty string, an argument that is no string
BadKeys == { << >>, NotAString }

\* One adapter without a provider: reads through the cache under every
\* decoding type and past it, puts, deletes, keys that are refused.
NextCache ==
  \/ \E k \in TwoKeys \cup BadKeys : KvPut(k, Text, NoOptions)
  \/ \E k \in TwoKeys \cup BadKeys : KvDelete(k)
  \/ \E k \in {<<97>>} \cup BadKeys, want \in GetTypes : KvGetCached(k, want, 60)
  \/ \E k \in TwoKeys : KvGet(k, "text")
  \/ Appends

SpecCache == Init /\ [][NextCache]_vars

\* One adapter with the encryption provider: values of every type.
NextEncrypted ==
  \/ \E k \in TwoKeys, v \in Values : KvPut(k, v, NoOptions)
  \/ \E k \in TwoKeys : KvDelete(k)
  \/ \E k \in TwoKeys, want \in WantTypes : KvGet(k, want)
  \/ Appends

InitEncrypted == Start(KVStorageAdapter(Null, TRUE))

SpecEncrypted == InitEncrypted /\ [][NextEncrypted]_vars

\* One adapter: puts that expire after a second, reads through the cache and
\* past it, the clock.
NextCacheExpiry ==
  \/ \E k \in TwoKeys, o \in {NoOptions, PutOptions(1, Null, Null)} : KvPut(k, Text, o)
  \/ \E k \in TwoKeys, cacheTtl \in {0, 60} : KvGetCached(k, "text", cacheTtl)
  \/ Appends
  \/ Tick

SpecCacheExpiry == Init /\ [][NextCacheExpiry]_vars

\* cache.set / get / delete / clear called on the TinyLRU directly
LruSet(k, value, ttlSeconds) ==
  /\ mem' = mem
  /\ wrap' = wrap
  /\ stamp' = stamp
  /\ kv' = [kv EXCEPT !.cache = TinyLRU_set(@, k, value, Null, ttlSeconds, now)]
  /\ ret' = Ret("cache.set", k, "ok", value)
  /\ UNCHANGED << be, disk, fds, tasks, now, session, appends, ticks, hist, lazy, wrote,
                  closedIndex, walk, durable, torn >>

LruGet(k) ==
  /\ mem' = mem
  /\ wrap' = wrap
  /\ stamp' = stamp
  /\ kv' = [kv EXCEPT !.cache = TinyLRU_get(@, k, now).cache]
  /\ ret' = Ret("cache.get", k, "ok",
                IF TinyLRU_get(kv.cache, k, now).hit.found
                  THEN TinyLRU_get(kv.cache, k, now).hit.value ELSE Absent)
  /\ UNCHANGED << be, disk, fds, tasks, now, session, appends, ticks, hist, lazy, wrote,
                  closedIndex, walk, durable, torn >>

LruDelete(k) ==
  /\ mem' = mem
  /\ wrap' = wrap
  /\ stamp' = stamp
  /\ kv' = [kv EXCEPT !.cache = TinyLRU_delete(@, k)]
  /\ ret' = Ret("cache.delete", k, "ok", Absent)
  /\ UNCHANGED << be, disk, fds, tasks, now, session, appends, ticks, hist, lazy, wrote,
                  closedIndex, walk, durable, torn >>

LruClear ==
  /\ mem' = mem
  /\ wrap' = wrap
  /\ stamp' = stamp
  /\ kv' = [kv EXCEPT !.cache = TinyLRU_clear(@)]
  /\ ret' = Ret("cache.clear", << >>, "ok", Absent)
  /\ UNCHANGED << be, disk, fds, tasks, now, session, appends, ticks, hist, lazy, wrote,
                  closedIndex, walk, durable, torn >>

\* maxEntries given to the constructor of the cache (-2: a negative size;
\* -1 is Null)
CacheSizes == { -2, 0, 1, 2 }

\* A TinyLRU of every size, used directly.
NextLRU ==
  \/ \E k \in Keys, v \in {Text, BytesValue(<<0, 255>>)}, ttlSeconds \in {0, 1} :
       LruSet(k, v, ttlSeconds)
  \/ \E k \in Keys : LruGet(k)
  \/ \E k \in Keys : LruDelete(k)
  \/ LruClear
  \/ Tick

InitLRU == \E maxEntries \in CacheSizes : Start(KVStorageAdapter(maxEntries, FALSE))

SpecLRU == InitLRU /\ [][NextLRU]_vars

\* ------------------------------------------------------------ the wrapped store
\* what the wrapper leaves alone
AdapterUnchanged ==
  UNCHANGED << be, disk, fds, tasks, now, ret, session, appends, ticks, hist, lazy, wrote,
               closedIndex, walk, durable, torn, kv, mem, stamp >>

\* the caller calls a method of the wrapped store and the call runs up to
\* its first await (or to its end)
WrapCall(methodStr, rawKey) ==
  /\ wrap.pc = "idle"
  /\ wrap' = wrapMethod(wrap, methodStr, rawKey)
  /\ AdapterUnchanged

\* the invocation of the base method that is in flight resolves
BaseResolves(result) ==
  /\ wrap.pc = "awaiting"
  /\ wrap' = Resolved(wrap, result)
  /\ AdapterUnchanged

\* the invocation of the base method that is in flight rejects
BaseRejects(err) ==
  /\ wrap.pc = "awaiting"
  /\ wrap' = Caught(wrap, err)
  /\ AdapterUnchanged

Methods == KeyMethods \cup {"list"}
\* first arguments: "k", " k", "", two spaces, a tab, and a number
RawKeys == { <<107>>, <<32, 107>>, << >>, <<32, 32>>, <<9>>, NotAString }
WrapPrefixes == { << >>, <<110, 58>> }
MaxAttempts == 3
Errors == {"E1", "E2"}

NextWrapper ==
  \/ \E methodStr \in Methods, rawKey \in RawKeys : WrapCall(methodStr, rawKey)
  \/ BaseResolves("value")
  \/ \E err \in Errors : BaseRejects(err)

InitWrapper ==
  \E prefix \in WrapPrefixes, validateKeys \in BOOLEAN, attempts \in 0..MaxAttempts,
     time \in BOOLEAN :
    StartOver(KVStorageAdapter(Null, FALSE), Memory(FALSE),
              withKVFeatures(WrapperOptions(prefix, validateKeys, attempts, time)))

SpecWrapper == InitWrapper /\ [][NextWrapper]_vars

\* ------------------------------------------------------------ two backends
\* One adapter over the file system and one over MemoryStorageBackend, given
\* the same awaited calls: values of every type, puts that expire, get,
\* delete, listings page by page, the clock.
NextUniform ==
  \/ \E k \in TwoKeys, v \in {Text, ObjectValue(<<1, 20>>)} : KvPut(k, v, NoOptions)
  \/ \E ttl \in {0, 1} : KvPut(<<98>>, Text, PutOptions(ttl, Null, Null))
  \/ \E k \in TwoKeys : KvDelete(k)
  \/ \E k \in TwoKeys, want \in {"text", "json"} : KvGet(k, want)
  \/ Appends
  \/ \E limit \in {Null, 1} : KvList(<< >>, limit)
  \/ KvListNext
  \/ Tick

InitUniform ==
  StartOver(KVStorageAdapter(Null, FALSE), Memory(TRUE), withKVFeatures(DefaultOptions))

SpecUniform == InitUniform /\ [][NextUniform]_vars

\* ------------------------------------------------------------ the provider
\* the promise of initialize() settles
InitializeSettles(ok) ==
  /\ mem' = mem
  /\ wrap' = wrap
  /\ stamp' = stamp
  /\ kv.encryptionReady = "pending"
  /\ kv' = [kv EXCEPT !.encryptionReady = IF ok THEN "resolved" ELSE "rejected"]
  /\ UNCHANGED << be, disk, fds, tasks, now, ret, session, appends, ticks, hist, lazy,
                  wrote, closedIndex, walk, durable, torn >>

\* a call that waited for initialize() throws what initialize() rejected with
ResumeThrows(tracked) ==
  /\ ret' = IF tracked THEN [ret EXCEPT !.status = "InitError"] ELSE ret
  /\ kv' = [kv EXCEPT !.waiting = Tail(@)]
  /\ UNCHANGED << be, disk, fds, tasks, now, session, appends, ticks, hist, lazy, wrote,
                  closedIndex, walk, durable, torn >>

\* getWithMetadata goes on behind ensureEncryptionReady with the record that
\* backend.get gave it before, and comes to outcome o
GetResumed(call, tracked, o) ==
  /\ ret' = IF tracked
              THEN [GetRet(call.key, call.want, o.status, o.value)
                      EXCEPT !.decrypts = o.decrypts]
            ELSE ret
  /\ kv' = [(IF o.decrypts > 0 THEN Crypt(kv) ELSE kv) EXCEPT
              !.waiting = Tail(@),
              !.cache = IF call.cacheTtl > 0 /\ Decoded(o)
                          THEN TinyLRU_set(@, cacheKey(call.key, call.want), o.value,
                                           call.rec.metadata, call.cacheTtl, now)
                        ELSE @]
  /\ UNCHANGED << be, disk, fds, tasks, now, session, appends, ticks, hist, lazy, wrote,
                  closedIndex, walk, durable, torn >>

Resumed(call, tracked) ==
  IF kv.encryptionReady = "rejected" THEN ResumeThrows(tracked)
  ELSE IF call.op = "put"
    THEN /\ PutReady(call.key, call.value, call.options, tracked)
         /\ kv' = Crypt([kv EXCEPT !.waiting = Tail(@)])
  ELSE GetResumed(call, tracked, DecryptOutcome(kv, call.rec, call.want))

\* initialize() has settled and the call that has waited longest goes on;
\* ret follows the call that was made last
Resume ==
  /\ mem' = mem
  /\ wrap' = wrap
  /\ stamp' = stamp
  /\ kv.waiting # << >>
  /\ kv.encryptionReady \in {"resolved", "rejected"}
  /\ Resumed(Head(kv.waiting), Len(kv.waiting) = 1)

\* the provider's decrypt begins (f) or ceases to fail: the key it holds is
\* not, or is again, the key the records were encrypted with
ProviderFails(f) ==
  /\ mem' = mem
  /\ wrap' = wrap
  /\ stamp' = stamp
  /\ kv.encryptionProvider
  /\ kv.provider.failing # f
  /\ kv' = [kv EXCEPT !.provider.failing = f]
  /\ UNCHANGED << be, disk, fds, tasks, now, ret, session, appends, ticks, hist, lazy,
                  wrote, closedIndex, walk, durable, torn >>

\* An adapter whose provider has an initialize() hook, and its successors on
\* the directory; calls may be made while initialize() has not settled.
NextHooks ==
  \/ \E k \in TwoKeys : KvPut(k, Text, NoOptions)
  \/ \E k \in TwoKeys : KvGet(k, "text")
  \/ \E ok \in BOOLEAN : InitializeSettles(ok)
  \/ Resume
  \/ Appends
  \/ Close
  \/ NewInstance

InitHooks == Start([KVStorageAdapter(Null, TRUE) EXCEPT !.provider.initialize = TRUE])

SpecHooks == InitHooks /\ [][NextHooks]_vars

\* An adapter with a provider whose decrypt can fail; reads through the cache
\* and past it.
NextDecrypt ==
  \/ \E k \in TwoKeys : KvPut(k, Text, NoOptions)
  \/ \E k \in TwoKeys, want \in {"text", "arrayBuffer"}, cacheTtl \in {0, 60} :
       KvGetCached(k, want, cacheTtl)
  \/ \E f \in BOOLEAN : ProviderFails(f)
  \/ Appends

SpecDecrypt == InitEncrypted /\ [][NextDecrypt]_vars

\* An instance is killed and its successors work on the directory it left:
\* they put, read, close, and are replaced.
NextRecovered ==
  \/ \E k \in TwoKeys : KvPut(k, Text, NoOptions)
  \/ \E k \in TwoKeys : KvGet(k, "text")
  \/ Appends
  \/ \E g \in Garbage : session = 1 /\ Crash(g)
  \/ Close
  \/ NewInstance

SpecRecovered == Init /\ [][NextRecovered]_vars

\* a string value as long as a whole segment may be
Long == StringValue([i \in 1..SegmentMaxBytes |-> 120])

\* One instance: records of every size, the largest longer than a segment
\* may be.
NextSizes ==
  \/ \E k \in TwoKeys, v \in {Text, Long} : KvPut(k, v, NoOptions)
  \/ \E k \in TwoKeys : KvDelete(k)
  \/ \E k \in TwoKeys : KvGet(k, "text")
  \/ Appends

SpecSizes == Init /\ [][NextSizes]_vars

\* Instances that follow one another on the directory while the clock runs:
\* puts without options and puts that expire after a second and carry
\* metadata, get, list, close and reopen.
NextReopen ==
  \/ \E k \in TwoKeys, o \in {NoOptions, PutOptions(1, Null, 7)} : KvPut(k, Text, o)
  \/ \E k \in TwoKeys : KvGet(k, "text")
  \/ KvList(<< >>, Null)
  \/ Appends
  \/ Tick
  \/ Close
  \/ NewInstance

SpecReopen == Init /\ [][NextReopen]_vars

\* what the steps of a timestamp leave alone
StoreUntouched ==
  UNCHANGED << be, disk, fds, tasks, now, ret, session, appends, ticks, hist, lazy, wrote,
               closedIndex, walk, durable, torn, kv, mem, wrap >>

\* put of a record with updatedAt = t: the header field, the index entry
StampPut(t) ==
  /\ stamp.state = "none"
  /\ stamp' = [state |-> "put", updatedAt |-> t,
               header |-> WriteUInt32LE(ToUint32Words(t)), ts |-> t]
  /\ StoreUntouched

\* recoverIndex on a fresh instance: the index entry from the header field
StampRecover ==
  /\ stamp.state = "put"
  /\ stamp' = [stamp EXCEPT !.state = "recovered", !.ts = ReadUInt32LE(stamp.header)]
  /\ StoreUntouched

\* timestamps around the powers of two up to 2^48 and around 395 * 2^32
\* milliseconds (the year 2023), and 1700000000000
Stamps ==
  { Words(w0, w1, w2) : w0 \in {0, 1, 255, 256, 65535}, w1 \in {0, 1, 255, 65535},
                        w2 \in {0, 1, 395, 65535} }
    \cup { Words(26624, 53221, 395) }

\* One record's timestamp: put writes it, recovery reads it back.
NextStamp ==
  \/ \E t \in Stamps : StampPut(t)
  \/ StampRecover

SpecStamp == Init /\ [][NextStamp]_vars

\* getWithMetadata(k, {type: want, cacheTtl}) on an adapter without a
\* provider, for a key the cache does not hold and the index holds
\* unexpired: from assertKey to the first fsRead of backend.get, which the
\* caller does not wait for before it makes its next call
GetBegins(k, want, cacheTtl) ==
  /\ mem' = MemoryGet(mem, k, want, now, kv.encryptionProvider)
  /\ wrap' = wrap
  /\ stamp' = stamp
  /\ Idle
  /\ ~kv.encryptionProvider
  /\ assertKey(k)
  /\ Len(kv.reading) < MaxReading
  /\ LET looked == IF cacheTtl > 0 THEN TinyLRU_get(kv.cache, cacheKey(k, want), now)
                   ELSE [cache |-> kv.cache, hit |-> NoHit]
         w == ensureOpened(World(be, disk, fds))
     IN /\ ~looked.hit.found
        /\ k \in DOMAIN w.be.index
        /\ ~EntryExpired(w.be.index[k], now)
        /\ LET g == getReadFd(w, w.be.index[k].fileId)
           IN /\ SetWorld(g.w)
              /\ kv' = [kv EXCEPT !.cache = looked.cache,
                                  !.reading = Append(@, Reading(k, want, cacheTtl,
                                                                w.be.index[k], g.fd))]
  /\ ret' = GetRet(k, want, "pending", Absent)
  /\ walk' = NoWalk
  /\ UNCHANGED << tasks, now, session, appends, ticks, hist, lazy, wrote, closedIndex,
                  durable, torn >>

\* what the caller sees of a get that ends: ret follows the call made last
GetEnded(r, status, value) ==
  IF ret.op = "get" /\ ret.status = "pending" /\ ret.key = r.key
    THEN [ret EXCEPT !.status = status, !.value = value]
  ELSE ret

\* the reads of a get in flight have completed with record rec:
\* getWithMetadata runs to its end
GetEndsWith(i, r, rec) ==
  IF rec.threw
    THEN /\ ret' = GetEnded(r, "error", Thrown)
         /\ kv' = [kv EXCEPT !.reading = Remove(@, i)]
         /\ UNCHANGED << be, disk, fds, tasks, appends, lazy >>
  ELSE IF isExpired(rec, now)
    THEN /\ Submit([DeleteSubmit(World(be, disk, fds), r.key, now, FALSE)
                      EXCEPT !.task.adapter = TRUE])
         /\ ret' = GetEnded(r, "ok", Absent)
         /\ kv' = [kv EXCEPT !.reading = Remove(@, i)]
         /\ lazy' = TRUE
  ELSE LET decoded == decodeValue(rec, r.want) IN
         /\ ret' = GetEnded(r, IF decoded = Thrown THEN "error" ELSE "ok", decoded)
         /\ kv' = [kv EXCEPT !.reading = Remove(@, i),
                             !.cache = IF r.cacheTtl > 0 /\ decoded # Thrown
                                              /\ decoded # Absent
                                         THEN TinyLRU_set(@, cacheKey(r.key, r.want), decoded,
                                                          rec.metadata, r.cacheTtl, now)
                                       ELSE @]
         /\ UNCHANGED << be, disk, fds, tasks, appends, lazy >>

\* fsRead on a descriptor that has been closed rejects
ReadFails ==
  [found |-> TRUE, threw |-> TRUE, encoding |-> "text", value |-> << >>,
   expiresAt |-> Null, metadata |-> Null, createdAt |-> 0, updatedAt |-> 0]

\* the reads of the get in flight kv.reading[i] complete: they give the bytes
\* that lie at the offset of the index entry the get looked up when it began
GetEnds(i) ==
  /\ mem' = mem
  /\ wrap' = wrap
  /\ stamp' = stamp
  /\ i \in 1..Len(kv.reading)
  /\ LET r == kv.reading[i]
     IN GetEndsWith(i, r, IF r.fd \in DOMAIN fds
                            THEN ReadRecord(World(be, disk, fds), r.fd, r.key, r.meta)
                          ELSE ReadFails)
  /\ UNCHANGED << now, session, ticks, hist, wrote, closedIndex, walk, durable, torn >>

\* One adapter whose caller makes a put or a delete while a get of the key
\* is still reading.
NextOverlap ==
  \/ \E k \in TwoKeys, v \in {Text, StringValue(<<234>>)} : KvPut(k, v, NoOptions)
  \/ \E k \in TwoKeys : KvDelete(k)
  \/ \E k \in TwoKeys : GetBegins(k, "text", 60)
  \/ \E i \in 1..MaxReading : GetEnds(i)
  \/ \E k \in TwoKeys : KvGetCached(k, "text", 60)
  \/ Appends

SpecOverlap == Init /\ [][NextOverlap]_vars

\* something outside the process damages segment file id, a segment older
\* than the newest one, while no instance has the directory open: the file is
\* cut down to n bytes, or its bytes from n on are overwritten with zeros
Damage(id, n, cut) ==
  /\ mem' = mem
  /\ wrap' = wrap
  /\ stamp' = stamp
  /\ ~be.opened
  /\ ret.op = "close"
  /\ tasks = << >>
  /\ id \in DOMAIN disk
  /\ \E newer \in DOMAIN disk : id < newer
  /\ n < Len(disk[id])
  /\ disk' = [disk EXCEPT ![id] = IF cut THEN SubSeq(@, 1, n)
                                         ELSE SubSeq(@, 1, n) \o Zeros(Len(@) - n)]
  /\ UNCHANGED << be, fds, tasks, now, ret, session, appends, ticks, hist, lazy, wrote,
                  closedIndex, walk, durable, torn, kv >>

\* the places a segment file is damaged at: its start, inside a header,
\* inside a payload, at the end of its first record, inside the header of
\* its second record
DamagedAt == {0, 4, HEADER_SIZE + 2, HEADER_SIZE + 3, 2 * HEADER_SIZE + 5}

\* Instances that follow one another on a directory whose segment files are
\* damaged between a close and the next open.
NextDamaged ==
  \/ \E k \in TwoKeys : KvPut(k, Text, NoOptions)
  \/ \E k \in TwoKeys : KvGet(k, "text")
  \/ Appends
  \/ Close
  \/ NewInstance
  \/ \E id \in DOMAIN disk, n \in DamagedAt, cut \in BOOLEAN : Damage(id, n, cut)

SpecDamaged == Init /\ [][NextDamaged]_vars

\* ------------------------------------------------------------ properties
\* C1: a get that directly follows a completed put of the same key (a put
\* without expiry), asked with the decoding type that matches the value,
\* returns a value equal to the one that was put.
C1_PutThenGet ==
  (ret.op = "get" /\ ret.justPut # Absent /\ ret.want = MatchingType(ret.justPut))
    => ret.value = ret.justPut

\* the instance in use was constructed on a directory that earlier instances
\* wrote, has opened it, and has been asked for no put or delete yet
Reopened == session >= 2 /\ be.opened /\ ~wrote

\* the last completed put of k was made by an earlier instance
PutEarlier(k) == hist[k].state = "live" /\ hist[k].putSession < session

\* C2: after close() and a reopen by a fresh instance, get(k) of a key whose
\* last put was made before the close (and that was not deleted since)
\* returns the value of that put.
C2_GetAfterReopen ==
  (ret.op = "get" /\ PutEarlier(ret.key) /\ ret.want = MatchingType(hist[ret.key].value))
    => ret.value = hist[ret.key].value

C2_Witness ==
  /\ ret.op = "get"
  /\ PutEarlier(ret.key)
  /\ ret.value = hist[ret.key].value
  /\ ret.value.type = "object"
  /\ Reopened

\* C3: when the process was killed with an append cut short, so that the
\* active segment ends in bytes that are no complete record, the first call
\* on the next instance runs ensureOpened to its end (opened is set, nothing
\* was thrown on the way) and the index is the one the complete records give.
C3_TornTail ==
  (torn # << >> /\ ~wrote /\ ret.op # "none") => (be.opened /\ be.index = durable)

C3_Witness ==
  /\ Len(torn) >= HEADER_SIZE
  /\ Slice(torn, 0, 4) = U32LE(MAGIC)
  /\ be.opened
  /\ ~wrote
  /\ be.index = durable
  /\ Cardinality(DOMAIN durable) = 2
  /\ ret.op = "get"
  /\ ret.value # Absent

\* C4: a key put by one instance and deleted by a later one is absent for
\* every instance constructed after the one that deleted it.
C4_TombstoneWins ==
  (/\ ret.op = "get"
   /\ hist[ret.key].state = "deleted"
   /\ 1 <= hist[ret.key].putSession
   /\ hist[ret.key].putSession < hist[ret.key].delSession
   /\ hist[ret.key].delSession < session)
    => (ret.value = Absent /\ ret.status = "ok")

C4_Witness ==
  /\ ret.op = "get"
  /\ hist[ret.key].state = "deleted"
  /\ hist[ret.key].putSession = 1
  /\ hist[ret.key].delSession = 2
  /\ session = 3
  /\ ret.value = Absent
  /\ ret.key \notin DOMAIN be.index

\* C5: after recovery every key is bound to the record that was written
\* last, also when its records lie in different segments, and get returns
\* the value of that record.
C5_LastWriteWins ==
  /\ Reopened =>
       \A k \in TwoKeys : hist[k].state = "live" =>
         /\ k \in DOMAIN be.index
         /\ be.index[k].fileId = hist[k].file
         /\ be.index[k].offset = hist[k].offset
  /\ (ret.op = "get" /\ PutEarlier(ret.key) /\ Cardinality(hist[ret.key].files) >= 2
        /\ ret.want = MatchingType(hist[ret.key].value))
       => ret.value = hist[ret.key].value

C5_Witness ==
  /\ Reopened
  /\ ret.op = "get"
  /\ PutEarlier(ret.key)
  /\ hist[ret.key].files = {1, 2}
  /\ hist[ret.key].file = 2
  /\ be.index[ret.key].fileId = 2
  /\ ret.value = hist[ret.key].value

\* the keys of the index under the prefix that had not expired at time t
Unexpired(prefix, t) ==
  { k \in DOMAIN be.index :
      /\ startsWith(k, prefix)
      /\ ~(be.index[k].expiresAt # Null /\ be.index[k].expiresAt <= t) }

Ascending(names) ==
  \A i \in 1..Len(names) : \A j \in 1..Len(names) : i < j => StringLess(names[i], names[j])

\* what the claim says of a listing whose limit is L, with N unexpired keys
\* under the prefix: the first page has exactly L keys and a cursor, every
\* page is ascending, and the pages up to the one with list_complete, put
\* together, are the sorted keys
PagesRight(L, N) ==
  L < N =>
    /\ walk.first = L
    /\ walk.pages = 1 => (~ret.page.list_complete /\ ret.page.cursor # << >>)
    /\ Ascending(Names(ret.page))
    /\ ret.page.list_complete => walk.names = SortStrings(Unexpired(walk.prefix, ret.at))

\* C6 as stated, for every limit L < N: the first page has exactly L keys.
C6_AnyLimit ==
  (walk.on /\ ret.op = "list" /\ walk.limit # Null)
    => PagesRight(walk.limit, Cardinality(Unexpired(walk.prefix, ret.at)))

\* C6: for a limit 1 <= L <= 10000 with L < N and no writes between the
\* pages, the first page has exactly L keys in ascending order and a cursor,
\* and the pages fetched with the cursors until list_complete is true, put
\* together, are the N keys in sorted order, each once.
C6_Pagination ==
  (walk.on /\ ret.op = "list" /\ walk.limit # Null
     /\ 1 <= walk.limit /\ walk.limit <= LIST_MAX_LIMIT)
    => PagesRight(walk.limit, Cardinality(Unexpired(walk.prefix, ret.at)))

C6_Witness ==
  /\ walk.on
  /\ ret.op = "list"
  /\ walk.limit = 1
  /\ walk.pages = 3
  /\ ret.page.list_complete
  /\ walk.names = << <<97>>, <<97, 98>>, <<98>> >>

\* the last completed put of k gave it an expiry time that had passed at t
ExpiredPut(k, t) ==
  hist[k].state = "live" /\ hist[k].expiresAt # Null /\ hist[k].expiresAt <= t

\* no call shows a key of set K whose expiry time had passed when it was made
HidesExpired(K) ==
  /\ (ret.op = "get" /\ ret.key \in K) => ret.value = Absent
  /\ ret.op = "list" =>
       \A i \in 1..Len(ret.page.keys) : ret.page.keys[i].name \notin K

\* C7 as stated, whatever expiry value was supplied at put.
C7_AnyExpiry == HidesExpired({ k \in Keys : ExpiredPut(k, ret.at) })

\* C7: once the expiry time of a key has passed, get returns absent and list
\* does not contain the key, for every expiry time other than 0 ms (the
\* value the record format keeps for "no expiry").
C7_LazyExpiry ==
  HidesExpired({ k \in Keys : ExpiredPut(k, ret.at) /\ hist[k].expiresAt # 0 })

C7_Witness ==
  /\ ret.op = "list"
  /\ ret.at = 2000
  /\ \E k \in TwoKeys :
       /\ ExpiredPut(k, ret.at)
       /\ hist[k].expiresAt = 2000
       /\ k \in DOMAIN be.index
  /\ Len(ret.page.keys) = 1

C10_DurableFirst ==
  [][/\ be'.index # be.index =>
          \E i \in 1..Len(tasks) :
            /\ AppendDone(i)
            /\ tasks[i].phase = "written"
            /\ Slice(disk[tasks[i].at.file], tasks[i].at.offset, tasks[i].totalLen)
                 = tasks[i].bufs
     /\ \A i \in 1..Len(tasks) :
          (AppendFailed(i) /\ tasks[i].fg /\ tasks[i].op = "put")
            => (ret'.status = "error" /\ be'.index = be.index)]_vars

C10_Witness ==
  /\ ret.op = "put"
  /\ ret.status = "error"
  /\ ret.key \notin DOMAIN be.index
  /\ DOMAIN be.index # {}
  /\ tasks = << >>

\* C9: on a fresh instance that reopened the directory, list returns the key
\* names, in the order and with the list_complete flag, that list with the
\* same options returned on the index as it was at the close.
C9_ListAfterReopen ==
  (ret.op = "list" /\ Reopened)
    => /\ Names(ret.page) = Names(list(closedIndex, ret.at, ret.opts))
       /\ ret.page.list_complete = list(closedIndex, ret.at, ret.opts).list_complete

C9_Witness ==
  /\ ret.op = "list"
  /\ Reopened
  /\ Names(ret.page) = << <<97>>, <<98>> >>
  /\ ret.page.list_complete

\* the file is made of complete records from pos to its last byte
RECURSIVE WholeRecords(_, _)
WholeRecords(file, pos) ==
  IF pos = Len(file) THEN TRUE
  ELSE IF pos + HEADER_SIZE > Len(file) THEN FALSE
  ELSE IF Slice(file, pos, 4) # U32LE(MAGIC) THEN FALSE
  ELSE WholeRecords(file, pos + HEADER_SIZE + ReadU16LE(Slice(file, pos, HEADER_SIZE), 6)
                                    + ReadU32LE(Slice(file, pos, HEADER_SIZE), 8))

\* the append handed to fs.writev in this step, if there is one
Appended == Len(tasks') = Len(tasks) + 1

\* C11: a put or delete that appends a record rotates first exactly when
\* activeSize + the record's length > segmentMaxBytes, to the segment with
\* the next id, and writes through the descriptor of the segment that is
\* active afterwards; every segment file is made of whole records.
C11_Rotation ==
  /\ [](\A id \in DOMAIN disk : WholeRecords(disk[id], 0))
  /\ [][Appended =>
          LET w == ensureOpened(World(be, disk, fds))
              t == tasks'[Len(tasks')]
              over == w.be.activeSize + t.totalLen > SegmentMaxBytes
          IN /\ be'.activeId = (IF over THEN w.be.activeId + 1 ELSE w.be.activeId)
             /\ over => (be'.activeSize = 0 /\ disk'[be'.activeId] = << >>)
             /\ ~over => be'.activeSize = w.be.activeSize
             /\ fds'[t.fd].file = be'.activeId]_vars

C11_Witness ==
  /\ be.activeId = 2
  /\ Len(disk[1]) = SegmentMaxBytes
  /\ Len(disk[2]) > 0
  /\ tasks = << >>
  /\ be.activeSize = Len(disk[2])

\* the descriptors open for append
AppendFds == { fd \in DOMAIN fds : fds[fd].mode = "a+" }

\* C12: an open instance has exactly one segment open for append, the one
\* with the highest id of the directory; a step changes the bytes of no
\* other segment file, so a segment that was rotated away from stays as it is.
C12_OneActive ==
  /\ [](be.opened =>
          /\ be.activeId \in DOMAIN disk
          /\ \A id \in DOMAIN disk : id <= be.activeId
          /\ AppendFds = {be.activeFd}
          /\ fds[be.activeFd].file = be.activeId)
  /\ [][\A id \in DOMAIN disk :
          disk'[id] # disk[id] =>
            (be.opened /\ id = be.activeId /\ \A j \in DOMAIN disk : j <= id)]_vars

C12_Witness ==
  /\ session = 2
  /\ be.opened
  /\ be.activeId = 2
  /\ Len(disk[1]) = 31
  /\ Len(disk[2]) = 54
  /\ \E k \in TwoKeys :
       hist[k].putSession = 2 /\ hist[k].file = 2 /\ hist[k].offset = 27

\* C13: once close() has returned on an instance, no later call on that same
\* instance (no new instance is constructed in the step) opens it again.
C13_ClosedStaysClosed ==
  [][(ret.op = "close" /\ ~be.opened /\ session' = session) => ~be'.opened]_vars

\* the bytes the index entry of k points at are not all in the segment file
CutShort(k) ==
  /\ k \in DOMAIN be.index
  /\ be.index[k].offset + be.index[k].size > Len(disk[be.index[k].fileId])

\* C15: a get of a key whose record is no longer fully present in the segment
\* file fails with an error and returns no value.
C15_ShortReadFails ==
  (ret.op = "get" /\ CutShort(ret.key)) => ret.status = "error"

\* C14: get, put and delete called with an empty key or with a key that is
\* no string end with a TypeError, and the backend, the segment files, the
\* descriptors, the appends in flight and the cache are as before the call.
C14_BadKeyRejected ==
  [][(ret' # ret /\ ret'.op \in {"get", "put", "delete"} /\ ret'.key \in BadKeys)
       => /\ ret'.status = "TypeError"
          /\ UNCHANGED << be, disk, fds, tasks, appends, kv >>]_vars

C14_Witness ==
  /\ ret.op = "get"
  /\ ret.key = NotAString
  /\ ret.status = "TypeError"
  /\ kv.cache.map # << >>
  /\ DOMAIN be.index # {}

\* the encoding tags of the put records of the file from pos on
RECURSIVE StoredEncodings(_, _)
StoredEncodings(file, pos) ==
  IF pos + HEADER_SIZE > Len(file) THEN {}
  ELSE (IF file[pos + 6] % 2 = FLAG_TOMBSTONE THEN {} ELSE {encodings(file[pos + 6] \div 2)})
         \cup StoredEncodings(file, pos + HEADER_SIZE
                                       + ReadU16LE(Slice(file, pos, HEADER_SIZE), 6)
                                       + ReadU32LE(Slice(file, pos, HEADER_SIZE), 8))

\* C16: with an encryption provider, every record put hands to the backend
\* is binary: the appends in flight and the records in the segment files
\* carry no other encoding.
C16_EncryptedIsBinary ==
  kv.encryptionProvider =>
    /\ \A i \in 1..Len(tasks) :
         tasks[i].op = "put" => encodings(tasks[i].bufs[6] \div 2) = "binary"
    /\ \A id \in DOMAIN disk : StoredEncodings(disk[id], 0) \subseteq {"binary"}

C16_Witness ==
  /\ kv.encryptionProvider
  /\ { hist[k].value.type : k \in TwoKeys } = {"string", "object"}
  /\ \E i \in 1..Len(tasks) : tasks[i].op = "put" /\ ret.value.type = "bytes"
  /\ \E id \in DOMAIN disk : StoredEncodings(disk[id], 0) = {"binary"}

\* the plaintext of the record the index entry of k points at
Plaintext(k) ==
  decrypt(Slice(disk[be.index[k].fileId],
                be.index[k].offset + HEADER_SIZE + Len(Utf8(k)),
                be.index[k].size - HEADER_SIZE - Len(Utf8(k))))

\* C17: with the provider, a get that directly follows a completed put of
\* the key, asked with the type of the value, returns the value that was put;
\* the stored record decrypts to a frame of version byte 1, the tag of
\* the value's encoding, and the payload.
C17_EncryptedRoundTrip ==
  (kv.encryptionProvider /\ ret.op = "get" /\ ret.justPut # Absent
     /\ ret.want = MatchingType(ret.justPut))
    => /\ ret.status = "ok"
       /\ ret.value = ret.justPut
       /\ Plaintext(ret.key)
            = encodeForEncryption(normalizePutValueSync(ret.justPut).encoding,
                                  normalizePutValueSync(ret.justPut).stored)
       /\ Plaintext(ret.key)[1] = 1
       /\ flagToEncoding(Plaintext(ret.key)[2]) = normalizePutValueSync(ret.justPut).encoding

C17_Witness ==
  /\ kv.encryptionProvider
  /\ ret.op = "get"
  /\ ret.want = "json"
  /\ ret.justPut = ObjectValue(<<1, 20>>)
  /\ ret.value = ret.justPut
  /\ \E k \in TwoKeys : hist[k].value.type = "bytes"

\* the cache keys of the entries the read cache holds
Cached == { kv.cache.map[i].k : i \in 1..Len(kv.cache.map) }

\* C18: when put or delete has returned, the cache holds no entry of the key
\* under any decoding type, and a get reflects the last put or delete of
\* its key whatever its cacheTtl: nothing after a delete, the value as text
\* or as a stream of its bytes after a put.
C18_CacheInvalidated ==
  /\ (ret.op \in {"put", "delete"} /\ ret.status = "ok")
       => \A type \in GetTypes : cacheKey(ret.key, type) \notin Cached
  /\ (ret.op = "get" /\ ret.key \in Keys)
       => /\ hist[ret.key].state # "live" => ret.value = Absent
          /\ (hist[ret.key].state = "live" /\ ret.want = "text")
               => ret.value = hist[ret.key].value
          /\ (hist[ret.key].state = "live" /\ ret.want = "stream")
               => ret.value = StreamValue(Utf8(hist[ret.key].value.v))

C18_Witness ==
  /\ ret.op = "get"
  /\ ret.want = "stream"
  /\ hist[ret.key].state = "deleted"
  /\ hist[ret.key].putSession = 1
  /\ ret.value = Absent
  /\ appends = 3
  /\ Cached = {}

C20_SizeLimit ==
  /\ [](/\ Len(kv.cache.map) <= kv.cache.max
        /\ kv.cache.max \in { Max(0, n) : n \in CacheSizes })
  /\ [][\A k \in Keys :
          (ret'.op = "cache.set" /\ ret'.key = k /\ k \notin Cached
             /\ kv.cache.max > 0 /\ Len(kv.cache.map) = kv.cache.max)
            => /\ Len(kv'.cache.map) = kv.cache.max
               /\ \A i \in 1..(kv.cache.max - 1) : kv'.cache.map[i] = kv.cache.map[i + 1]
               /\ kv'.cache.map[kv.cache.max].k = k]_vars

C20_Witness ==
  /\ kv.cache.max = 2
  /\ Len(kv.cache.map) = 2
  /\ ret.op = "cache.set"
  /\ kv.cache.map[1].k = <<98>>
  /\ kv.cache.map[2].k = <<97>>
  /\ kv.cache.map[2].expiresAt = 3000

\* every invocation of the base method so far in the wrapped call has failed
AllFailed(outcomes) == \A i \in 1..Len(outcomes) : outcomes[i].status = "rejected"

\* the wrapped call was stopped by the validation of its key
Invalidated ==
  wrap.opts.validateKeys /\ wrap.method \in KeyMethods /\ wrap.result.v = "TypeError"
    /\ wrap.invoked = << >>

\* C21: with retry.attempts = n >= 1 the base method is invoked until it
\* succeeds or has failed n times: a call that fails has invoked it exactly
\* n times and rejects with the error of the last invocation; a call whose
\* invocation i <= n succeeds returns that result and invokes it no more.
C21_Retry ==
  wrap.opts.retry.attempts >= 1 =>
    /\ Len(wrap.invoked) <= wrap.opts.retry.attempts
    /\ wrap.pc = "awaiting"
         => /\ Len(wrap.invoked) = Len(wrap.outcomes) + 1
            /\ AllFailed(wrap.outcomes)
    /\ wrap.result.status = "resolved"
         => /\ wrap.pc = "idle"
            /\ Len(wrap.invoked) = Len(wrap.outcomes)
            /\ AllFailed(SubSeq(wrap.outcomes, 1, Len(wrap.outcomes) - 1))
            /\ wrap.outcomes[Len(wrap.outcomes)] = wrap.result
    /\ (wrap.result.status = "rejected" /\ ~Invalidated)
         => /\ wrap.pc = "idle"
            /\ Len(wrap.invoked) = wrap.opts.retry.attempts
            /\ Len(wrap.outcomes) = wrap.opts.retry.attempts
            /\ AllFailed(wrap.outcomes)
            /\ wrap.result.v = wrap.outcomes[wrap.opts.retry.attempts].v

C21_Witness ==
  /\ wrap.opts.retry.attempts = 3
  /\ wrap.result = [status |-> "rejected", v |-> "E2"]
  /\ Len(wrap.invoked) = 3
  /\ wrap.outcomes[1].v = "E1"
  /\ wrap.outcomes[2].v = "E1"

\* C22: a wrapped call that rejects has called onError exactly once, with the
\* method name and the error; a call that resolves has not called it (stated
\* for the stores that make at least one attempt).
C22_OnErrorOnce ==
  wrap.opts.retry.attempts >= 1 =>
    /\ wrap.result.status = "rejected"
         => wrap.onError = << [method |-> wrap.method, error |-> wrap.result.v] >>
    /\ wrap.result.status = "resolved" => wrap.onError = << >>

\* C23: with a non-empty prefix, every key passed to get, getWithMetadata,
\* put and delete reaches the base store as prefix + key, whatever the other
\* options are.
C23_PrefixAlways ==
  wrap.opts.prefix # << >> =>
    \A i \in 1..Len(wrap.invoked) :
      wrap.invoked[i].method \in KeyMethods
        => wrap.invoked[i].key = wrap.opts.prefix \o wrap.rawKey

\* C24: with validateKeys on, get, getWithMetadata, put and delete called with
\* an empty, a whitespace-only or a non-string key reject with TypeError and
\* the base method is not invoked.
C24_InvalidKeyRejected ==
  (/\ wrap.opts.validateKeys
   /\ wrap.method \in KeyMethods
   /\ wrap.rawKey \in { << >>, <<32, 32>>, <<9>>, NotAString })
    => /\ wrap.pc = "idle"
       /\ wrap.result = [status |-> "rejected", v |-> "TypeError"]
       /\ wrap.invoked = << >>

C24_Witness ==
  /\ wrap.opts.validateKeys
  /\ wrap.opts.prefix # << >>
  /\ wrap.opts.retry.attempts = 2
  /\ wrap.method = "put"
  /\ wrap.rawKey = <<32, 32>>
  /\ wrap.result.v = "TypeError"

\* C25: every awaited put, delete, get and list gives the same result over
\* MemoryStorageBackend and over NodeFileSystemStorageBackend: the same
\* outcome, the same value, the same page of keys, list_complete and cursor.
C25_SameResults ==
  (mem.on /\ ret.op \in {"put", "delete", "get", "list"} /\ ret.status # "pending")
    => /\ mem.ret.status = ret.status
       /\ ret.op = "get" => mem.ret.value = ret.value
       /\ ret.op = "list" => mem.ret.page = ret.page

\* C26: with a provider that has an initialize() hook, initialize() is called
\* at most once by an adapter, and no encrypt or decrypt is called before it
\* has completed, however the puts and gets interleave: a put that has come to
\* its append, or a get that has called decrypt, finds the promise resolved.
C26_InitializeOnceAndFirst ==
  kv.provider.initialize =>
    /\ kv.provider.initCalls <= 1
    /\ ~kv.provider.early
    /\ (ret.decrypts > 0 \/ \E i \in 1..Len(tasks) : tasks[i].op = "put")
         => kv.encryptionReady = "resolved"

\* a put and a get waited together for initialize(), and both went on: the
\* get has called decrypt while the append of the put is in flight
C26_Witness ==
  /\ kv.provider.initialize
  /\ kv.provider.initCalls = 1
  /\ kv.encryptionReady = "resolved"
  /\ ret.op = "get" /\ ret.decrypts = 1 /\ ret.status = "ok" /\ ret.value # Absent
  /\ \E i \in 1..Len(tasks) : tasks[i].op = "put" /\ tasks[i].phase = "submitted"

\* the read cache holds an entry under cache key ck
Holds(c, ck) == \E i \in 1..Len(c.map) : c.map[i].k = ck

\* C27: when the provider's decrypt fails during a get, the caller gets the
\* provider's error (not a value, not null, not an error of the adapter) after
\* exactly one call of decrypt, and the get writes nothing to the read cache:
\* every entry the cache holds afterwards, it held before.
C27_DecryptFailure ==
  [][ (ret'.op = "get" /\ ret'.status = "DecryptionError") =>
        /\ ret'.decrypts = 1
        /\ ret'.value = Thrown
        /\ \A i \in 1..Len(kv'.cache.map) :
             \E j \in 1..Len(kv.cache.map) : kv.cache.map[j] = kv'.cache.map[i]
        /\ ~Holds(kv.cache, cacheKey(ret'.key, ret'.want))
             => ~Holds(kv'.cache, cacheKey(ret'.key, ret'.want)) ]_vars

\* a get whose decrypt failed, for a key the cache holds under another type
\* and does not hold under the type asked for
C27_Witness ==
  /\ ret.op = "get" /\ ret.status = "DecryptionError" /\ ret.decrypts = 1
  /\ kv.provider.failing
  /\ ~Holds(kv.cache, cacheKey(ret.key, ret.want))
  /\ \E want \in {"text", "arrayBuffer"} : Holds(kv.cache, cacheKey(ret.key, want))

\* no put or delete of the instance is in flight and no call waits
Quiescent == be.opened /\ tasks = << >> /\ kv.waiting = << >>

\* the index recoverIndex builds from the segment files as they are
Replayed == recoverIndex(EmptyMap, disk, listSegments(disk))

\* expiresAt as both put and recoverIndex read it: 0 and null are no expiry
Expiry(e) == IF Truthy(e.expiresAt) THEN e.expiresAt ELSE Null

\* the index entry e of key k points at the start of a complete record that
\* is no tombstone and carries the bytes of k as its key
PointsAtRecord(k, e) ==
  /\ e.fileId \in DOMAIN disk
  /\ e.offset + e.size <= Len(disk[e.fileId])
  /\ LET header == Slice(disk[e.fileId], e.offset, HEADER_SIZE)
     IN /\ Slice(header, 0, 4) = U32LE(MAGIC)
        /\ header[6] % 2 # FLAG_TOMBSTONE
        /\ e.size = HEADER_SIZE + ReadU16LE(header, 6) + ReadU32LE(header, 8)
        /\ Slice(disk[e.fileId], e.offset + HEADER_SIZE, ReadU16LE(header, 6)) = Utf8(k)

\* C28: at every quiescent state of an open instance the index holds the keys
\* that a replay of the segment files by recoverIndex gives, each with the
\* fileId, offset, size and expiry of the replay, and every entry points at
\* the start of a complete non-tombstone record of its key.
C28_IndexIsReplay ==
  Quiescent =>
    /\ DOMAIN be.index = DOMAIN Replayed
    /\ \A k \in DOMAIN be.index :
         /\ k \in DOMAIN Replayed =>
              /\ be.index[k].fileId = Replayed[k].fileId
              /\ be.index[k].offset = Replayed[k].offset
              /\ be.index[k].size = Replayed[k].size
              /\ Expiry(be.index[k]) = Expiry(Replayed[k])
         /\ PointsAtRecord(k, be.index[k])

\* get found ret.key expired and started a delete it did not await; the put
\* of ret.key that was called while that delete was in flight has completed,
\* and so has the delete
LazyThenPut ==
  /\ ret.op = "put" /\ ret.status = "ok"
  /\ ret.overLazy
  /\ tasks = << >>

\* C29: when get(k) found k expired and started its delete, and the caller
\* then awaited put(k, v), then once both appends have completed the index
\* entry of k points at the record the put appended, in whatever order the
\* two appends completed.
C29_LazyDeleteKeepsPut ==
  LazyThenPut =>
    /\ ret.key \in DOMAIN be.index
    /\ PointsAtRecord(ret.key, be.index[ret.key])
    /\ Slice(disk[be.index[ret.key].fileId], be.index[ret.key].offset,
             be.index[ret.key].size)
         = PutBuffers(PutRecord([AdapterRecord(ret.key, ret.value, NoOptions, ret.at)
                                   EXCEPT !.expiresAt = ret.expiresAt]))

\* the last completed put of k was made by an instance that had opened the
\* directory with a torn tail in its newest segment (the first instance is
\* the one that was killed), and that instance is gone
PutBehindTornTail(k) ==
  /\ torn # << >>
  /\ hist[k].state = "live"
  /\ hist[k].putSession >= 2
  /\ hist[k].putSession < session

\* C30: a put completed by an instance that was opened on a directory whose
\* newest segment ends in an incomplete record is recovered by the next
\* instance: the index of that instance holds the key, and get returns the
\* value.
C30_DurableAfterRecovery ==
  \A k \in TwoKeys :
    (be.opened /\ PutBehindTornTail(k)) =>
      /\ k \in DOMAIN be.index
      /\ (ret.op = "get" /\ ret.key = k) => ret.value = hist[k].value

MoreUnexpired ==
  /\ ret.page.keys # << >>
  /\ \E k \in DOMAIN be.index :
       /\ startsWith(k, ret.opts.prefix)
       /\ ~ListSkips(be.index[k], ret.at)
       /\ StringLess(ret.page.keys[Len(ret.page.keys)].name, k)

\* C33: list returns list_complete = false together with a cursor exactly
\* when at least one unexpired key with the prefix sorts after the last key
\* returned; otherwise it returns list_complete = true and no cursor.
C33_CompleteIffNoneLeft ==
  ret.op = "list" =>
    IF MoreUnexpired THEN ~ret.page.list_complete /\ ret.page.cursor # << >>
    ELSE ret.page.list_complete /\ ret.page.cursor = << >>

\* the step is a call of list
ListCall ==
  \/ \E prefix \in Prefixes, limit \in Limits \cup {Null} : KvList(prefix, limit)
  \/ KvListNext

\* list has appended nothing to any segment and started no append, no
\* rotation has added a segment, and the index, activeSize and activeOffset
\* are what they were
StoreUnchanged ==
  /\ \A id \in DOMAIN disk : id \in DOMAIN disk' /\ disk'[id] = disk[id]
  /\ DOMAIN disk # {} => DOMAIN disk' = DOMAIN disk
  /\ tasks' = tasks
  /\ be'.index = be.index
  /\ be'.activeSize = be.activeSize
  /\ be'.activeOffset = be.activeOffset

\* C32 as stated: no call of list changes the store.
C32_ListChangesNothing == [][ListCall => StoreUnchanged]_vars

\* C32: a call of list on an instance that is open changes nothing: no
\* segment file, no append in flight, no field of the instance (the index
\* with its expired entries included), no descriptor.
C32_ListOnOpenInstance ==
  [][(be.opened /\ ListCall) =>
       (StoreUnchanged /\ disk' = disk /\ be' = be /\ fds' = fds)]_vars

\* list has returned on an instance that was open (it had been asked for a
\* put), and the index still holds an expired entry that list passed over
C32_Witness ==
  /\ ret.op = "list"
  /\ wrote
  /\ be.opened
  /\ \E k \in DOMAIN be.index :
       /\ ListSkips(be.index[k], ret.at)
       /\ \A j \in 1..Len(ret.page.keys) : ret.page.keys[j].name # k

\* C34: on a fresh instance every recovered index entry has metadata null:
\* the record get returns for the key has metadata null and list gives the
\* key without metadata, also when the put of the key supplied metadata.
C34_MetadataLostOnRecovery ==
  Reopened =>
    /\ \A k \in DOMAIN be.index :
         be.index[k].metadata = Null /\ BackendRecord(k).metadata = Null
    /\ ret.op = "list" =>
         \A j \in 1..Len(ret.page.keys) : ret.page.keys[j].metadata = Null

\* a fresh instance has listed a key whose index entry carried metadata when
\* the instance before it was closed
C34_Witness ==
  /\ Reopened
  /\ ret.op = "list"
  /\ \E j \in 1..Len(ret.page.keys) :
       /\ ret.page.keys[j].name \in DOMAIN closedIndex
       /\ closedIndex[ret.page.keys[j].name].metadata # Null

\* the record of k that landed last in the segment files is a put whose
\* expiry time, if it has one, lies after time t
LiveAt(k, t) ==
  /\ k \in DOMAIN durable
  /\ durable[k].expiresAt # Null => t < durable[k].expiresAt

\* C36: on a fresh instance the index entry of every record has the expiry
\* the put gave it (the header holds 0 for a put without expiry, and the
\* entry has none), get returns the record exactly while now is before the
\* expiry time, and list gives exactly the keys whose expiry time has not
\* been reached.
C36_ExpirySurvivesRecovery ==
  Reopened =>
    /\ \A k \in DOMAIN durable :
         /\ k \in DOMAIN be.index
         /\ be.index[k].expiresAt = durable[k].expiresAt
         /\ ReadDoubleLE(disk[durable[k].fileId], durable[k].offset + 16)
              = IF durable[k].expiresAt = Null THEN 0 ELSE durable[k].expiresAt
    /\ (ret.op = "get" /\ ret.status = "ok") =>
         ret.value = IF LiveAt(ret.key, ret.at) THEN Text ELSE Absent
    /\ ret.op = "list" =>
         Names(ret.page) = SortStrings({k \in DOMAIN durable : LiveAt(k, ret.at)})

\* a fresh instance has returned, from get, a record that was put with an
\* expiry time
C36_Witness ==
  /\ Reopened
  /\ ret.op = "get"
  /\ ret.value = Text
  /\ durable[ret.key].expiresAt # Null

\* C35: the timestamp recovery restores from the header's 32-bit field, which
\* get then reports as createdAt and updatedAt, equals the updatedAt the
\* record was put with.
C35_TimestampSurvivesRecovery ==
  stamp.state = "recovered" => stamp.ts = stamp.updatedAt

\* C37: every open descriptor is the active one or a cached read descriptor
\* of the instance (those of recovery and of rotated-away segments are
\* closed), and when close() has returned no descriptor is open: the
\* instance has no active descriptor and its cache of descriptors is empty.
C37_NoHandleAfterClose ==
  /\ \A fd \in DOMAIN fds :
       fd = be.activeFd \/ \E id \in DOMAIN be.fdCache : be.fdCache[id] = fd
  /\ ret.op = "close" =>
       /\ fds = EmptyMap
       /\ be.activeFd = Null
       /\ be.fdCache = EmptyMap

\* close() has returned on an instance that had rotated and held a cached
\* read descriptor beside the active one
C37_Witness ==
  /\ ret.op = "close"
  /\ ret.handles >= 2
  /\ Cardinality(DOMAIN disk) >= 2
  /\ fds = EmptyMap

\* C38: when close() has returned, the index of the instance holds no entry.
C38_CloseDiscardsIndex ==
  ret.op = "close" => be.index = EmptyMap

\* what a get of k with type text reads from the store as it is
Stored(k) ==
  IF k \in DOMAIN be.index THEN decodeValue(BackendRecord(k), "text") ELSE Absent

\* the cache holds no entry of k for type text, or one with the value v
CacheAgrees(c, k, v) ==
  \A j \in 1..Len(c.map) : c.map[j].k = cacheKey(k, "text") => c.map[j].value = v

\* C39: when a get(k, {cacheTtl > 0}) ends after a put or delete of k that was
\* called while it was reading has completed, the cache then holds no entry
\* of k with a value other than the one the store holds (which is what a
\* later get(k, {cacheTtl > 0}) returns from the cache).
C39_NoStaleCache ==
  [][\A i \in 1..Len(kv.reading), k \in TwoKeys :
       (GetEnds(i) /\ kv.reading[i].key = k /\ kv.reading[i].overlapped
          /\ tasks = << >>) =>
         CacheAgrees(kv'.cache, k, Stored(k))]_vars


\* segment file id cannot be scanned to its end: the scan of recoverIndex
\* stops in it at a header without magic or at a record cut short
Damaged(id) == ~WholeRecords(disk[id], 0)

\* the record that landed last for key k lies in a segment with a damaged
\* segment of a lower id before it, and is itself in a segment whose records
\* are all complete
NewerThanDamage(k) ==
  /\ k \in DOMAIN durable
  /\ durable[k].fileId \in DOMAIN disk
  /\ ~Damaged(durable[k].fileId)
  /\ durable[k].offset + durable[k].size <= Len(disk[durable[k].fileId])
  /\ \E i \in DOMAIN disk : i < durable[k].fileId /\ Damaged(i)

\* C40: on an instance that has opened a directory earlier instances wrote,
\* every key whose last landed record lies in a segment with complete records
\* only, behind a damaged segment of a lower id, is in the index with the
\* file, offset and size of that record, and no call on the instance has
\* ended in an error.
C40_DamageHidesNoNewerSegment ==
  Reopened =>
    /\ \A k \in TwoKeys :
         NewerThanDamage(k) =>
           /\ k \in DOMAIN be.index
           /\ be.index[k].fileId = durable[k].fileId
           /\ be.index[k].offset = durable[k].offset
           /\ be.index[k].size = durable[k].size
    /\ ret.status # "error"

\* a get on a reopened instance has returned the value of a key whose record
\* lies in the segment behind a damaged one
C40_Witness ==
  /\ Reopened
  /\ ret.op = "get"
  /\ ret.status = "ok"
  /\ NewerThanDamage(ret.key)
  /\ ret.value = Text
  /\ \E k \in TwoKeys : k \in DOMAIN durable /\ Damaged(durable[k].fileId)
====
